---- MODULE Spec2Model ----
(***************************************************************************)
(* Client-side data orchestration of the match-analytics dashboard.        *)
(*                                                                         *)
(*   Spec        the Analytics Tab Controller (the AdvancedAnalytics       *)
(*               component, src/frontend/nuxt.config.ts lines 22-159),     *)
(*               driven by its parent's props (matchId, teams).            *)
(*   SpecPlayer  the Player Analysis Orchestrator (PlayerMode.vue).        *)
(*                                                                         *)
(* A Vue ref is a variable.  A watcher runs in the same step as the        *)
(* assignment that triggers it (the flush happens before any other task),  *)
(* and only when the watched value really changed.  An async fetch         *)
(* function is split at its await: the part before it belongs to the       *)
(* caller's step and puts a request in flight; the part after it is a      *)
(* Resolve step of its own, taken in any order.                            *)
(***************************************************************************)
EXTENDS Integers, Sequences, FiniteSets, Bags, TLC

\* ------------------------------------------------------------------ bounds
\* Matches listed by the backend.
NumMatches == 2
\* Handler runs of the tab controller in one behaviour.
MaxEvents == 3
\* Selections the user makes in the orchestrator's three <select> controls.
MaxSelections == 2
\* Failed responses of the orchestrator in one behaviour.
MaxFailures == 1
\* Requests of the orchestrator in flight once a user selection has added its own.
MaxPending == 4
\* Moments in the top_highlights and in the areas_for_improvement of a sampled answer.
MaxHighlights == 2
MaxLowlights == 1
\* User events of the Data Manager in one run.
MaxDmEvents == 3
\* Failed responses of the Data Manager in one run.
MaxDmFailures == 1
\* User events of the Player Comparison in one run.
MaxCmpEvents == 4

\* ------------------------------------------------- values of the data model
\* ref<number | null>: null and 0 are both falsy in `!props.matchId`.
NoMatch == 0
Matches == 1..NumMatches

\* ref<T | null>: <<>> is null, <<x>> is the value x.
Null == <<>>
Some(x) == <<x>>

\* The six tab identifiers of activeTab.
Tabs == {"momentum", "score", "setpieces", "passing", "pressing", "substitutions"}

\* The backend's /api/players answer for a match: data.teams and data.players.
\* Matches 1 and 2 list the same first team with the same first player.
MatchTeams(m) ==
  CASE m = 1 -> <<"Argentina", "France">>
    [] m = 2 -> <<"Argentina", "Croatia">>
    [] OTHER -> <<"France", "Croatia">>

Player(name, id, team) == [player_name |-> name, player_id |-> id, team |-> team]

MatchPlayers(m) ==
  CASE m = 1 -> << Player("Messi", 10, "Argentina"), Player("Alvarez", 9, "Argentina"),
                   Player("Mbappe", 7, "France") >>
    [] m = 2 -> << Player("Messi", 10, "Argentina"), Player("Modric", 8, "Croatia") >>
    [] OTHER -> << Player("Mbappe", 7, "France"), Player("Modric", 8, "Croatia") >>

\* Array.from(new Set(players.map(p => p.team))): the teams in order of first
\* appearance.
RECURSIVE Dedup(_)
Dedup(s) ==
  IF s = <<>> THEN <<>>
  ELSE LET rest == Dedup(SubSeq(s, 1, Len(s) - 1))
           x == s[Len(s)]
       IN IF \E i \in 1..Len(rest) : rest[i] = x THEN rest ELSE Append(rest, x)

teamsOf(ps) == Dedup([i \in 1..Len(ps) |-> ps[i].team])

VARIABLES
  \* Analytics Tab Controller
  matchId,          \* props.matchId
  teams,            \* props.teams
  activeTab,
  tabData,          \* the six data refs, by tab
  isLoading,
  tabTeam,          \* selectedTeam of the tab controller
  tabFlight,        \* bag of analytics requests awaiting their response
  parentPlayers,    \* matches whose players request the parent has in flight
  requested,        \* history: tabs requested for the current (match, team)
  tabEvents,        \* number of user events so far
  tabEv             \* history: the last step taken

tabVars == << matchId, teams, activeTab, tabData, isLoading, tabTeam, tabFlight,
              parentPlayers, requested, tabEvents, tabEv >>

VARIABLES
  \* Player Analysis Orchestrator
  matches,                  \* the match ids of the list, in order
  selectedMatchId,
  isLoadingMatches,
  players,
  selectedPlayerName,
  selectedTeam,
  isLoadingPlayers,
  isLoadingAnalysis,
  analysisError,
  playerAnalysis,
  activeHighlightVizData,
  allPositions,
  matchSummary,
  isLoadingMatchSummary,
  teamStats,
  isLoadingTeamStats,
  formation,
  formationNumber,
  flight,                   \* bag of the orchestrator's requests awaiting a response
  clean,                    \* history: no two analysis requests were in flight at once
  failures,                 \* number of failed requests so far
  selections,               \* number of user selections so far
  ev                        \* history: the last step taken

selVars == << selectedMatchId, selectedPlayerName, selectedTeam >>

slotVars == << players, playerAnalysis, activeHighlightVizData, allPositions,
               matchSummary, teamStats, formation, formationNumber >>

flagVars == << isLoadingMatches, isLoadingPlayers, isLoadingAnalysis,
               isLoadingMatchSummary, isLoadingTeamStats, analysisError >>

playerVars == << matches, selVars, slotVars, flagVars, flight, clean, failures,
                 selections, ev >>

\* The activeAction prop of the Pitch Renderer (PitchMap.vue).
VARIABLES activeAction

pitchVars == << activeAction >>

\* ------------------------------------------- Data Manager (DataManager.vue)
VARIABLES
  isOpen,              \* props.isOpen
  selectedCompetition, \* ref<string>
  dmSelectedTeam,      \* the component's selectedTeam, "all" or a team
  dataStatus,          \* ref<DataStatus | null>
  dmIsLoading,         \* the component's isLoading
  fetchingMatch,       \* ref<number | null>
  deletingMatch,       \* ref<number | null>
  fetchingAll,         \* ref(false)
  dmError,             \* the component's error: ref<string | null>
  dmFlight,            \* bag of requests awaiting their response
  dmResume,            \* bag of mutating calls whose `await loadStatus()` has returned
  backend,             \* the backend's cache: competition -> cached matches
  emitted,             \* history: number of dataChanged emissions
  dmEvents,            \* history: number of user events
  dmFailures,          \* history: number of failed responses
  dmEv                 \* history: the last handler run

dmVars == << isOpen, selectedCompetition, dmSelectedTeam, dataStatus, dmIsLoading,
             fetchingMatch, deletingMatch, fetchingAll, dmError, dmFlight, dmResume,
             backend, emitted, dmEvents, dmFailures, dmEv >>

\* ------------------------------------- Player Comparison (PlayerComparison.vue)
VARIABLES
  cmpMatchId,          \* props.matchId
  player1Id,           \* ref<number | null>, 0 for null
  player2Id,           \* ref<number | null>, 0 for null
  comparisonData,      \* ref<any>(null)
  cmpIsLoading,        \* the component's isLoading
  cmpFlight,           \* bag of comparison requests awaiting their response
  cmpEvents,           \* history: number of user events
  cmpEv                \* history: the last handler run

cmpVars == << cmpMatchId, player1Id, player2Id, comparisonData, cmpIsLoading, cmpFlight,
              cmpEvents, cmpEv >>

\* What the handlers of one component leave alone.
notTab == << playerVars, pitchVars, dmVars, cmpVars >>
notPlayer == << tabVars, pitchVars, dmVars, cmpVars >>
notPitch == << tabVars, playerVars, dmVars, cmpVars >>
notDm == << tabVars, playerVars, pitchVars, cmpVars >>
notCmp == << tabVars, playerVars, pitchVars, dmVars >>

vars == << tabVars, playerVars, pitchVars, dmVars, cmpVars >>

\* ---------------------------------------------------------------- requests
Req(slot, m, team) == [slot |-> slot, match |-> m, team |-> team]

One(r) == SetToBag({r})

\* const team = selectedTeam.value || props.teams[0] || ''
PassingTeam(sel, tms) == IF sel # "" THEN sel ELSE IF Len(tms) > 0 THEN tms[1] ELSE ""

\* The request a fetch function sends for `slot`, read from the refs at the
\* moment of the call; none when `!props.matchId`.
FetchReqs(slot, m, sel, tms) ==
  IF m = NoMatch THEN EmptyBag
  ELSE One(Req(slot, m, IF slot = "passing" THEN PassingTeam(sel, tms) ELSE ""))

Event(op, slot, m, team, hit) ==
  [op |-> op, slot |-> slot, match |-> m, team |-> team, hit |-> hit]

AllNull == [t \in Tabs |-> Null]

TabInit ==
  /\ matchId = NoMatch
  /\ teams = <<>>
  /\ activeTab = "momentum"
  /\ tabData = AllNull
  /\ isLoading = FALSE
  /\ tabTeam = ""
  /\ tabFlight = EmptyBag
  /\ parentPlayers = {}
  /\ requested = {}
  /\ tabEvents = 0
  /\ tabEv = Event("init", "", NoMatch, "", FALSE)


\* ----------------------------------------------------------------- actions
\* A tab click that sends the requests `new`, whatever the slot holds.
SetTabSending(tab, new) ==
  /\ tab # activeTab
  /\ tabEvents < MaxEvents
  /\ activeTab' = tab
  /\ tabFlight' = tabFlight (+) new
  /\ isLoading' = IF new # EmptyBag THEN TRUE ELSE isLoading
  /\ requested' = IF new # EmptyBag THEN requested \cup {tab} ELSE requested
  /\ tabEv' = Event("tab", tab, matchId, "", tabData[tab] # Null)
  /\ tabEvents' = tabEvents + 1
  /\ UNCHANGED << matchId, teams, tabData, tabTeam, parentPlayers, notTab >>

\* Mutant: the watcher without its `!slot.value` test.
SetTabAlways(tab) == SetTabSending(tab, FetchReqs(tab, matchId, tabTeam, teams))

\* Mutant: the watcher de-duplicating on "already requested" instead of on
\* the slot being empty.
SetTabDedup(tab) ==
  SetTabSending(tab, IF tabData[tab] = Null /\ tab \notin requested
                     THEN FetchReqs(tab, matchId, tabTeam, teams) ELSE EmptyBag)

\* @click="activeTab = tab.id" and watch(activeTab).
SetTab(tab) ==
  /\ tab # activeTab
  /\ tabEvents < MaxEvents
  /\ LET new == IF tabData[tab] = Null
                THEN FetchReqs(tab, matchId, tabTeam, teams) ELSE EmptyBag
     IN /\ activeTab' = tab
        /\ tabFlight' = tabFlight (+) new
        /\ isLoading' = IF new # EmptyBag THEN TRUE ELSE isLoading
        /\ requested' = IF new # EmptyBag THEN requested \cup {tab} ELSE requested
        /\ tabEv' = Event("tab", tab, matchId, "", tabData[tab] # Null)
  /\ tabEvents' = tabEvents + 1
  /\ UNCHANGED << matchId, teams, tabData, tabTeam, parentPlayers, notTab >>

\* Mutant: the match watcher forgetting to reset one of the six refs.
MatchChangeKeepsPassing(m) ==
  /\ m # matchId
  /\ tabEvents < MaxEvents
  /\ matchId' = m
  /\ tabData' = [AllNull EXCEPT !["passing"] = tabData["passing"]]
  /\ tabFlight' = tabFlight (+) FetchReqs("momentum", m, tabTeam, teams)
  /\ isLoading' = TRUE
  /\ requested' = {"momentum"}
  /\ parentPlayers' = parentPlayers \cup {m}
  /\ tabEvents' = tabEvents + 1
  /\ tabEv' = Event("match", "momentum", m, "", tabData # AllNull)
  /\ UNCHANGED << teams, activeTab, tabTeam, notTab >>

\* Mutant: the match watcher also fetches the dataset of the active tab.
MatchChangeFetchesActive(m) ==
  /\ m # matchId
  /\ tabEvents < MaxEvents
  /\ matchId' = m
  /\ tabData' = AllNull
  /\ LET new == FetchReqs("momentum", m, tabTeam, teams)
                (+) (IF activeTab # "momentum" THEN FetchReqs(activeTab, m, tabTeam, teams)
                     ELSE EmptyBag)
     IN /\ tabFlight' = tabFlight (+) new
        /\ isLoading' = IF new # EmptyBag THEN TRUE ELSE isLoading
        /\ requested' = IF new # EmptyBag THEN {"momentum", activeTab} ELSE {}
  /\ parentPlayers' = parentPlayers \cup {m}
  /\ tabEvents' = tabEvents + 1
  /\ tabEv' = Event("match", "momentum", m, "", tabData # AllNull)
  /\ UNCHANGED << teams, activeTab, tabTeam, notTab >>

\* The parent selects another match: watch(() => props.matchId). The parent
\* also sends its players request for the new match (PlayerMode fetchPlayers).
MatchChange(m) ==
  /\ m # matchId
  /\ tabEvents < MaxEvents
  /\ matchId' = m
  /\ tabData' = AllNull
  /\ LET new == FetchReqs("momentum", m, tabTeam, teams)
     IN /\ tabFlight' = tabFlight (+) new
        /\ isLoading' = IF new # EmptyBag THEN TRUE ELSE isLoading
        /\ requested' = IF new # EmptyBag THEN {"momentum"} ELSE {}
  /\ parentPlayers' = parentPlayers \cup {m}
  /\ tabEvents' = tabEvents + 1
  /\ tabEv' = Event("match", "momentum", m, "", tabData # AllNull)
  /\ UNCHANGED << teams, activeTab, tabTeam, notTab >>

\* Mutant: the team watcher re-fetching without clearing the slot.
TeamWatchKeepsSlot(sel, tms) ==
  IF activeTab = "passing"
  THEN LET new == FetchReqs("passing", matchId, sel, tms)
       IN /\ tabData' = tabData
          /\ tabFlight' = tabFlight (+) new
          /\ isLoading' = IF new # EmptyBag THEN TRUE ELSE isLoading
          /\ requested' = requested \cup {"passing"}
  ELSE /\ requested' = requested \ {"passing"}
       /\ UNCHANGED << tabData, tabFlight, isLoading >>

\* watch(selectedTeam) of the tab controller, run after selectedTeam became
\* `sel` with the teams prop `tms`: the next values of the passing slot, the
\* requests in flight, the loading flag and the requested tabs.
TeamWatch(sel, tms) ==
  IF activeTab = "passing"
  THEN LET new == FetchReqs("passing", matchId, sel, tms)
       IN /\ tabData' = [tabData EXCEPT !["passing"] = Null]
          /\ tabFlight' = tabFlight (+) new
          /\ isLoading' = IF new # EmptyBag THEN TRUE ELSE isLoading
          /\ requested' = IF new # EmptyBag THEN requested \cup {"passing"}
                          ELSE requested \ {"passing"}
  ELSE /\ requested' = requested \ {"passing"}
       /\ UNCHANGED << tabData, tabFlight, isLoading >>

\* The parent's players list for match m arrives and its computed `teams`
\* changes: watch(() => props.teams), then watch(selectedTeam) if it fired.
TeamsChange(m) ==
  /\ m \in parentPlayers
  /\ parentPlayers' = parentPlayers \ {m}
  /\ LET tms == teamsOf(MatchPlayers(m))
         sel == IF Len(tms) > 0 /\ tabTeam = "" THEN tms[1] ELSE tabTeam
     IN /\ teams' = tms
        /\ tabTeam' = sel
        /\ IF sel # tabTeam
           THEN TeamWatch(sel, tms)
           ELSE UNCHANGED << tabData, tabFlight, isLoading, requested >>
        /\ tabEv' = Event("teams", "passing", matchId, sel, sel # tabTeam)
  /\ UNCHANGED << matchId, activeTab, tabEvents, notTab >>

\* The team <select v-model="selectedTeam"> of the passing tab, rendered only
\* when the passing tab is active and isLoading is false.
SelectTeam(t) ==
  /\ activeTab = "passing"
  /\ ~isLoading
  /\ \E i \in 1..Len(teams) : teams[i] = t
  /\ t # tabTeam
  /\ tabEvents < MaxEvents
  /\ tabTeam' = t
  /\ TeamWatch(t, teams)
  /\ tabEvents' = tabEvents + 1
  /\ tabEv' = Event("team", "passing", matchId, t, tabData["passing"] # Null)
  /\ UNCHANGED << matchId, teams, activeTab, parentPlayers, notTab >>

\* Mutant: a response is dropped when its match is no longer the selected one.
TabWriteIfCurrent(r) ==
  IF r.match = matchId
  THEN [tabData EXCEPT ![r.slot] = Some([match |-> r.match, team |-> r.team])]
  ELSE tabData

\* The response of request r arrives with res.ok: `slot.value = await
\* res.json()`, then the finally block.
TabWrite(r) == [tabData EXCEPT ![r.slot] = Some([match |-> r.match, team |-> r.team])]

ResolveOk(r) ==
  /\ r \in BagToSet(tabFlight)
  /\ tabFlight' = tabFlight (-) One(r)
  /\ tabData' = TabWrite(r)
  /\ isLoading' = FALSE
  /\ tabEv' = Event("ok", r.slot, r.match, r.team, tabData[r.slot] # Null)
  /\ UNCHANGED << matchId, teams, activeTab, tabTeam, parentPlayers, requested, tabEvents,
                  notTab >>

\* Mutant: a failure resets the slot.
TabFailNulls(r) == [tabData EXCEPT ![r.slot] = Null]

\* The response is not ok, or fetch (or res.json()) throws: the catch block
\* logs, then the finally block. No data ref is assigned.
TabFailWrite(r) == tabData

ResolveFail(r) ==
  /\ r \in BagToSet(tabFlight)
  /\ tabFlight' = tabFlight (-) One(r)
  /\ tabData' = TabFailWrite(r)
  /\ isLoading' = FALSE
  /\ tabEv' = Event("fail", r.slot, r.match, r.team, tabData[r.slot] # Null)
  /\ UNCHANGED << matchId, teams, activeTab, tabTeam, parentPlayers, requested, tabEvents,
                  notTab >>

AllTeams == {"Argentina", "France", "Croatia"}

TabNext ==
  \/ \E tab \in Tabs : SetTab(tab)
  \/ \E m \in Matches : MatchChange(m)
  \/ \E m \in Matches : TeamsChange(m)
  \/ \E t \in AllTeams : SelectTeam(t)
  \/ \E r \in BagToSet(tabFlight) : ResolveOk(r)
  \/ \E r \in BagToSet(tabFlight) : ResolveFail(r)

\* ------------------------------------------- Player Analysis Orchestrator
\* The backend's /api/matches answer: data.matches.
AllMatches == [i \in 1..NumMatches |-> i]

\* String.prototype.toLowerCase() on the outcome vocabulary: the strings with
\* an upper-case letter, each mapped to its lower-case form.
ToLower(s) ==
  CASE s \in {"Goal", "GOAL"} -> "goal"
    [] s \in {"Complete", "COMPLETE"} -> "complete"
    [] s \in {"Won", "WON"} -> "won"
    [] s = "Success" -> "success"
    [] s = "Incomplete" -> "incomplete"
    [] s = "Missed" -> "missed"
    [] s = "Lost" -> "lost"
    [] s = "Out" -> "out"
    [] s = "Pass Offside" -> "pass offside"
    [] s = "Unknown" -> "unknown"
    [] s = "Fail" -> "fail"
    [] s = "FAILED" -> "failed"
    [] s \in {"Saved", "SAVED"} -> "saved"
    [] s = "Blocked" -> "blocked"
    [] s = "Banana" -> "banana"
    [] OTHER -> s

Position(x, y, type) == [x |-> x, y |-> y, type |-> type]

\* A Moment of the analysis payload; pitch_viz_data is optional, and `impact`
\* is "" on a moment as the backend sends it.
Moment(minute, score, type, viz) ==
  [minute |-> minute, highlight_score |-> score, event_type |-> type,
   impact |-> "", pitch_viz_data |-> viz]

\* interface PitchVizData. An optional coordinate pair that is absent is <<>>,
\* an optional string that is absent is "" (both falsy, as undefined is).
VizData(type, name, start, end, coords, outcome, color) ==
  [action_type |-> type, player_name |-> name, start_coords |-> start,
   end_coords |-> end, coords |-> coords, outcome |-> outcome, team_color |-> color]

PointViz(type, name, coords, outcome, color) ==
  VizData(type, name, <<>>, <<>>, coords, outcome, color)

\* interface PlayerStats, the fields performanceBreakdown reads. The counts
\* are naturals, total_value_added is in hundredths, pass_accuracy is the
\* string as the sequence of its characters.
Stats(total, pos, neg, highlights, value, accuracy) ==
  [total_actions |-> total, positive_contributions |-> pos,
   negative_contributions |-> neg, highlights_count |-> highlights,
   total_value_added |-> value, pass_accuracy |-> accuracy]

\* The backend's analysis answer for a player in a match (match 0: no
\* match_id parameter). highlight_score is in tenths.
AnalysisOf(name, m) ==
  [player_name |-> name, match |-> m,
   stats |-> Stats(40, 22, 6, 3, 35, << "7", "3", "%" >>),
   top_highlights |->
     CASE name = "Messi" ->
            << Moment(20 + m, 8, "Shot",
                      Some(PointViz("shot", "Messi", <<108, 38>>, "Goal", "#75aadb"))) >>
       [] name = "Modric" -> << Moment(33, 5, "Pass", Null) >>
       [] OTHER -> <<>>,
   areas_for_improvement |->
     CASE name = "Messi" -> << Moment(61, -3, "Dribble", Null) >>
       [] name = "Alvarez" -> << Moment(12, -4, "Pass", Null) >>
       [] OTHER -> <<>>,
   all_positions |->
     CASE name = "Messi" -> << Position(80, 30, "Pass"), Position(95, 42, "Shot") >>
       [] name = "Alvarez" ->
            << Position(70, 20, "Pass"), Position(75, 25, "Carry"), Position(88, 44, "Shot"),
               Position(60, 50, "Pass"), Position(66, 35, "Dribble") >>
       [] OTHER -> <<>>]

\* players.find(p => p.team === team): its index, 0 when there is none.
FirstOfTeam(ps, team) ==
  IF \E i \in 1..Len(ps) : ps[i].team = team
  THEN CHOOSE i \in 1..Len(ps) :
         ps[i].team = team /\ \A j \in 1..(i - 1) : ps[j].team # team
  ELSE 0

\* players.find(p => p.player_name === name)?.player_id: 0 when undefined.
PlayerIdOf(ps, name) ==
  IF \E i \in 1..Len(ps) : ps[i].player_name = name
  THEN ps[CHOOSE i \in 1..Len(ps) :
            ps[i].player_name = name /\ \A j \in 1..(i - 1) : ps[j].player_name # name].player_id
  ELSE 0

\* filteredPlayers: the names on offer in the player <select>.
FilteredNames(ps, team) == {ps[i].player_name : i \in {j \in 1..Len(ps) : ps[j].team = team}}

PReq(kind, m, team, name, id) ==
  [kind |-> kind, match |-> m, team |-> team, player |-> name, id |-> id]

PEvent(op, kind, m, hit) == [op |-> op, kind |-> kind, match |-> m, hit |-> hit]

\* Mutant: the index into the positions sample taken without the modulo.
makeFallbackNoWrap(moment, positions) ==
  LET pos == IF moment.minute + 1 <= Len(positions) THEN positions[moment.minute + 1]
             ELSE Position(60, 40, "Pass")
      isPositive == moment.impact = "positive" \/ moment.highlight_score > 0
  IN PointViz("other",
              IF moment.event_type # "" THEN moment.event_type ELSE "Action",
              <<pos.x, pos.y>>,
              IF isPositive THEN "complete" ELSE "incomplete",
              IF isPositive THEN "#22c55e" ELSE "#ef4444")


\* makeFallbackVizData(moment), reading allPositions.value = positions.
makeFallbackVizData(moment, positions) ==
  LET len == IF Len(positions) > 1 THEN Len(positions) ELSE 1
      idx == moment.minute % len
      pos == IF idx + 1 <= Len(positions) THEN positions[idx + 1]
             ELSE Position(60, 40, "Pass")
      isPositive == moment.impact = "positive" \/ moment.highlight_score > 0
  IN PointViz("other",
              IF moment.event_type # "" THEN moment.event_type ELSE "Action",
              <<pos.x, pos.y>>,
              IF isPositive THEN "complete" ELSE "incomplete",
              IF isPositive THEN "#22c55e" ELSE "#ef4444")

\* moment.pitch_viz_data || makeFallbackVizData(moment), outcome lower-cased.
VizOf(moment, positions) ==
  LET viz == IF moment.pitch_viz_data # Null THEN moment.pitch_viz_data[1]
             ELSE makeFallbackVizData(moment, positions)
  IN IF viz.outcome # "" THEN [viz EXCEPT !.outcome = ToLower(viz.outcome)] ELSE viz

\* Mutant: an answer without moments leaves the active visualization alone.
FirstVizRetained(data) ==
  IF Len(data.top_highlights) > 0 THEN Some(VizOf(data.top_highlights[1], data.all_positions))
  ELSE IF Len(data.areas_for_improvement) > 0
       THEN Some(VizOf(data.areas_for_improvement[1], data.all_positions))
       ELSE activeHighlightVizData

\* fetchPlayerAnalysis lines 309-320: the active visualization after a
\* successful response `data`.
FirstViz(data) ==
  LET firstMoment ==
        IF Len(data.top_highlights) > 0 THEN Some(data.top_highlights[1])
        ELSE IF Len(data.areas_for_improvement) > 0 THEN Some(data.areas_for_improvement[1])
        ELSE Null
  IN IF firstMoment # Null THEN Some(VizOf(firstMoment[1], data.all_positions)) ELSE Null

PlayerInit ==
  /\ matches = <<>>
  /\ selectedMatchId = NoMatch
  /\ isLoadingMatches = TRUE
  /\ players = <<>>
  /\ selectedPlayerName = ""
  /\ selectedTeam = "Argentina"
  /\ isLoadingPlayers = FALSE
  /\ isLoadingAnalysis = FALSE
  /\ analysisError = Null
  /\ playerAnalysis = Null
  /\ activeHighlightVizData = Null
  /\ allPositions = <<>>
  /\ matchSummary = Null
  /\ isLoadingMatchSummary = FALSE
  /\ teamStats = Null
  /\ isLoadingTeamStats = FALSE
  /\ formation = <<>>
  /\ formationNumber = Null
  /\ flight = One(PReq("matches", NoMatch, "", "", 0))
  /\ clean = TRUE
  /\ failures = 0
  /\ selections = 0
  /\ ev = PEvent("init", "", NoMatch, FALSE)

\* fetchPlayerAnalysis(name, player?.player_id) up to its await.
AnalysisReq(name, ps, m) == PReq("analysis", m, "", name, PlayerIdOf(ps, name))

\* Mutant: the team watcher leaves the selected player alone.
TeamPickKeeps(ps, name, team) == name

\* watch(selectedTeam) #1: the selected player after the team became `team`.
TeamPick(ps, name, team) ==
  IF FirstOfTeam(ps, team) > 0 THEN ps[FirstOfTeam(ps, team)].player_name ELSE name

\* watch(selectedPlayerName): the analysis requests of one flush in which the
\* name went from name0 to name1 (by the handler) and then to name2 (by
\* watch(selectedTeam) #1).
AnalysisReqs(name0, name1, name2, ps, m) ==
  (IF name1 # name0 /\ name1 # "" THEN One(AnalysisReq(name1, ps, m)) ELSE EmptyBag)
  (+) (IF name2 # name1 /\ name2 # "" THEN One(AnalysisReq(name2, ps, m)) ELSE EmptyBag)

\* Mutant: the team watcher refetches nothing.
TeamReqsNone(m, team) == EmptyBag

\* fetchTeamStats() and fetchFormation() up to their awaits.
TeamReqs(m, team) ==
  IF m = NoMatch THEN EmptyBag
  ELSE One(PReq("teamStats", m, team, "", 0)) (+) One(PReq("formation", m, team, "", 0))

\* watch(selectedMatchId): the four fetches for a truthy new id.
MatchReqs(m, team) ==
  IF m = NoMatch THEN EmptyBag
  ELSE One(PReq("players", m, "", "", 0)) (+) One(PReq("summary", m, "", "", 0))
       (+) TeamReqs(m, team)

Has(kind, bag) == \E r \in BagToSet(bag) : r.kind = kind

\* The flags a batch of new requests raises: each fetch function sets its
\* loading flag, fetchPlayers and fetchPlayerAnalysis reset analysisError.
Raise(new) ==
  /\ isLoadingPlayers' = IF Has("players", new) THEN TRUE ELSE isLoadingPlayers
  /\ isLoadingAnalysis' = IF Has("analysis", new) THEN TRUE ELSE isLoadingAnalysis
  /\ isLoadingMatchSummary' = IF Has("summary", new) THEN TRUE ELSE isLoadingMatchSummary
  /\ isLoadingTeamStats' = IF Has("teamStats", new) THEN TRUE ELSE isLoadingTeamStats
  /\ analysisError' = IF Has("players", new) \/ Has("analysis", new) THEN Null
                      ELSE analysisError

\* clean after the requests `new` are added to those in flight `old`.
StaysClean(old, new) == clean /\ ~(Has("analysis", old) /\ Has("analysis", new))

\* A user selection is taken while its requests fit the bound on requests in flight.
Fits(new) == BagCardinality(flight) + BagCardinality(new) <= MaxPending

\* fetchMatches after its await, response ok; then watch(selectedMatchId).
MatchesOk(r) ==
  /\ r \in BagToSet(flight) /\ r.kind = "matches"
  /\ matches' = AllMatches
  /\ LET sel == IF Len(AllMatches) > 0 /\ selectedMatchId = NoMatch
                THEN AllMatches[1] ELSE selectedMatchId
         new == IF sel # selectedMatchId THEN MatchReqs(sel, selectedTeam) ELSE EmptyBag
     IN /\ selectedMatchId' = sel
        /\ flight' = (flight (-) One(r)) (+) new
        /\ Raise(new)
        /\ clean' = StaysClean(flight, new)
  /\ isLoadingMatches' = FALSE
  /\ ev' = PEvent("ok", "matches", selectedMatchId', FALSE)
  /\ UNCHANGED << failures, selectedPlayerName, selectedTeam, slotVars, selections, notPlayer >>

\* fetchMatches: the catch block.
MatchesFail(r) ==
  /\ r \in BagToSet(flight) /\ r.kind = "matches"
  /\ flight' = flight (-) One(r)
  /\ analysisError' = Some("Failed to connect to backend.")
  /\ isLoadingMatches' = FALSE
  /\ failures < MaxFailures
  /\ failures' = failures + 1
  /\ ev' = PEvent("fail", "matches", NoMatch, FALSE)
  /\ UNCHANGED << clean, matches, selVars, slotVars, isLoadingPlayers, isLoadingAnalysis,
                  isLoadingMatchSummary, isLoadingTeamStats, selections, notPlayer >>

\* The match <select v-model="selectedMatchId"> (disabled while the list
\* loads), then watch(selectedMatchId).
SelectMatch(m) ==
  /\ ~isLoadingMatches
  /\ \E i \in 1..Len(matches) : matches[i] = m
  /\ m # selectedMatchId
  /\ selections < MaxSelections
  /\ selectedMatchId' = m
  /\ LET new == MatchReqs(m, selectedTeam)
     IN /\ Fits(new)
        /\ flight' = flight (+) new
        /\ Raise(new)
        /\ clean' = StaysClean(flight, new)
  /\ selections' = selections + 1
  /\ ev' = PEvent("selectMatch", "", m, players # <<>> /\ playerAnalysis # Null)
  /\ UNCHANGED << failures, matches, selectedPlayerName, selectedTeam, slotVars, isLoadingMatches,
                  notPlayer >>

Up(kind, new, cur) == IF Has(kind, new) THEN TRUE ELSE cur

Err(new, cur) == IF Has("players", new) \/ Has("analysis", new) THEN Null ELSE cur

\* Mutant: the auto-selection guarded by "no player selected yet".
AutoSelectIfNone(ps, tms, name, team) ==
  IF name = "" /\ Len(tms) > 0 /\ FirstOfTeam(ps, tms[1]) > 0
  THEN << ps[FirstOfTeam(ps, tms[1])].player_name, tms[1] >>
  ELSE << name, team >>

\* fetchPlayers lines 270-276: << selectedPlayerName, selectedTeam >> after a
\* response with players `ps` and teams `tms`.
AutoSelect(ps, tms, name, team) ==
  IF Len(tms) > 0 /\ FirstOfTeam(ps, tms[1]) > 0
  THEN << ps[FirstOfTeam(ps, tms[1])].player_name, tms[1] >>
  ELSE << name, team >>

\* fetchPlayers after its await, response ok; then watch(selectedPlayerName),
\* watch(selectedTeam) #1 and #2 for what changed.
PlayersOk(r) ==
  /\ r \in BagToSet(flight) /\ r.kind = "players"
  /\ LET ps == MatchPlayers(r.match)
         pick == AutoSelect(ps, MatchTeams(r.match), selectedPlayerName, selectedTeam)
         name1 == pick[1]
         team1 == pick[2]
         name2 == IF team1 # selectedTeam THEN TeamPick(ps, name1, team1) ELSE name1
         new == AnalysisReqs(selectedPlayerName, name1, name2, ps, selectedMatchId)
                (+) (IF team1 # selectedTeam THEN TeamReqs(selectedMatchId, team1)
                     ELSE EmptyBag)
     IN /\ players' = ps
        /\ selectedPlayerName' = name2
        /\ selectedTeam' = team1
        /\ flight' = (flight (-) One(r)) (+) new
        /\ isLoadingPlayers' = FALSE
        /\ isLoadingAnalysis' = Up("analysis", new, isLoadingAnalysis)
        /\ isLoadingTeamStats' = Up("teamStats", new, isLoadingTeamStats)
        /\ analysisError' = Err(new, analysisError)
        /\ clean' = StaysClean(flight, new)
        /\ ev' = PEvent("ok", "players", r.match,
                        selectedPlayerName # ""
                          /\ << name2, team1 >> # << selectedPlayerName, selectedTeam >>)
  /\ UNCHANGED << failures, matches, selectedMatchId, playerAnalysis, activeHighlightVizData,
                  allPositions, matchSummary, teamStats, formation, formationNumber,
                  isLoadingMatches, isLoadingMatchSummary, selections, notPlayer >>

\* fetchPlayers: the catch block. players.value is not assigned.
PlayersFail(r) ==
  /\ r \in BagToSet(flight) /\ r.kind = "players"
  /\ flight' = flight (-) One(r)
  /\ analysisError' = Some("Failed to fetch players for this match.")
  /\ isLoadingPlayers' = FALSE
  /\ failures < MaxFailures
  /\ failures' = failures + 1
  /\ ev' = PEvent("fail", "players", r.match, players # <<>>)
  /\ UNCHANGED << clean, matches, selVars, slotVars, isLoadingMatches, isLoadingAnalysis,
                  isLoadingMatchSummary, isLoadingTeamStats, selections, notPlayer >>

\* fetchPlayerAnalysis after its await, response ok.
AnalysisOk(r) ==
  /\ r \in BagToSet(flight) /\ r.kind = "analysis"
  /\ flight' = flight (-) One(r)
  /\ LET data == AnalysisOf(r.player, r.match)
     IN /\ playerAnalysis' = Some(data)
        /\ allPositions' = data.all_positions
        /\ activeHighlightVizData' = FirstViz(data)
  /\ isLoadingAnalysis' = FALSE
  /\ ev' = PEvent("ok", "analysis", r.match, playerAnalysis # Null)
  /\ UNCHANGED << failures, matches, selVars, players, matchSummary, teamStats, formation,
                  formationNumber, isLoadingMatches, isLoadingPlayers,
                  isLoadingMatchSummary, isLoadingTeamStats, analysisError, clean,
                  selections, notPlayer >>

\* fetchPlayerAnalysis: response not ok, or a throw; the catch block.
AnalysisFail(r) ==
  /\ r \in BagToSet(flight) /\ r.kind = "analysis"
  /\ flight' = flight (-) One(r)
  /\ analysisError' = Some("Failed to fetch analysis")
  /\ playerAnalysis' = Null
  /\ isLoadingAnalysis' = FALSE
  /\ failures < MaxFailures
  /\ failures' = failures + 1
  /\ ev' = PEvent("fail", "analysis", r.match, playerAnalysis # Null)
  /\ UNCHANGED << clean, matches, selVars, players, activeHighlightVizData, allPositions,
                  matchSummary, teamStats, formation, formationNumber, isLoadingMatches,
                  isLoadingPlayers, isLoadingMatchSummary, isLoadingTeamStats,
                  selections, notPlayer >>

\* fetchMatchSummary after its await: res.ok, or the else branch / catch.
SummaryDone(r, ok) ==
  /\ r \in BagToSet(flight) /\ r.kind = "summary"
  /\ flight' = flight (-) One(r)
  /\ matchSummary' = IF ok THEN Some([match |-> r.match]) ELSE Null
  /\ isLoadingMatchSummary' = FALSE
  /\ ok \/ failures < MaxFailures
  /\ failures' = IF ok THEN failures ELSE failures + 1
  /\ ev' = PEvent(IF ok THEN "ok" ELSE "fail", "summary", r.match, matchSummary # Null)
  /\ UNCHANGED << clean, matches, selVars, players, playerAnalysis, activeHighlightVizData,
                  allPositions, teamStats, formation, formationNumber, isLoadingMatches,
                  isLoadingPlayers, isLoadingAnalysis, isLoadingTeamStats, analysisError,
                  selections, notPlayer >>

\* fetchTeamStats after its await: res.ok, or the else branch / catch.
TeamStatsDone(r, ok) ==
  /\ r \in BagToSet(flight) /\ r.kind = "teamStats"
  /\ flight' = flight (-) One(r)
  /\ teamStats' = IF ok THEN Some([match |-> r.match, team |-> r.team]) ELSE Null
  /\ isLoadingTeamStats' = FALSE
  /\ ok \/ failures < MaxFailures
  /\ failures' = IF ok THEN failures ELSE failures + 1
  /\ ev' = PEvent(IF ok THEN "ok" ELSE "fail", "teamStats", r.match, teamStats # Null)
  /\ UNCHANGED << clean, matches, selVars, players, playerAnalysis, activeHighlightVizData,
                  allPositions, matchSummary, formation, formationNumber, isLoadingMatches,
                  isLoadingPlayers, isLoadingAnalysis, isLoadingMatchSummary, analysisError,
                  selections, notPlayer >>

\* fetchFormation after its await: res.ok, or the else branch / catch.
FormationDone(r, ok) ==
  /\ r \in BagToSet(flight) /\ r.kind = "formation"
  /\ flight' = flight (-) One(r)
  /\ formation' = IF ok THEN << [match |-> r.match, team |-> r.team] >> ELSE <<>>
  /\ formationNumber' = IF ok THEN Some(442) ELSE Null
  /\ ok \/ failures < MaxFailures
  /\ failures' = IF ok THEN failures ELSE failures + 1
  /\ ev' = PEvent(IF ok THEN "ok" ELSE "fail", "formation", r.match, formation # <<>>)
  /\ UNCHANGED << clean, matches, selVars, players, playerAnalysis, activeHighlightVizData,
                  allPositions, matchSummary, teamStats, flagVars, selections, notPlayer >>

\* The team <select v-model="selectedTeam"> over the computed `teams`, then
\* watch(selectedTeam) #1, watch(selectedPlayerName), watch(selectedTeam) #2.
SelectTeamP(t) ==
  /\ \E i \in 1..Len(players) : players[i].team = t
  /\ t # selectedTeam
  /\ selections < MaxSelections
  /\ LET name2 == TeamPick(players, selectedPlayerName, t)
         new == AnalysisReqs(selectedPlayerName, selectedPlayerName, name2, players,
                             selectedMatchId)
                (+) TeamReqs(selectedMatchId, t)
     IN /\ Fits(new)
        /\ selectedTeam' = t
        /\ selectedPlayerName' = name2
        /\ flight' = flight (+) new
        /\ Raise(new)
        /\ clean' = StaysClean(flight, new)
  /\ selections' = selections + 1
  /\ ev' = PEvent("selectTeam", "", selectedMatchId, FALSE)
  /\ UNCHANGED << failures, matches, selectedMatchId, slotVars, isLoadingMatches, notPlayer >>

\* The player <select v-model="selectedPlayerName"> over filteredPlayers
\* (disabled while the players load), then watch(selectedPlayerName).
SelectPlayer(p) ==
  /\ ~isLoadingPlayers
  /\ p \in FilteredNames(players, selectedTeam)
  /\ p # selectedPlayerName
  /\ selections < MaxSelections
  /\ selectedPlayerName' = p
  /\ LET new == One(AnalysisReq(p, players, selectedMatchId))
     IN /\ Fits(new)
        /\ flight' = flight (+) new
        /\ Raise(new)
        /\ clean' = StaysClean(flight, new)
  /\ selections' = selections + 1
  /\ ev' = PEvent("selectPlayer", "", selectedMatchId, FALSE)
  /\ UNCHANGED << failures, matches, selectedMatchId, selectedTeam, slotVars, isLoadingMatches,
                  notPlayer >>

AllPlayerNames == {"Messi", "Alvarez", "Mbappe", "Modric"}

PlayerNext ==
  \/ \E r \in BagToSet(flight) : MatchesOk(r)
  \/ \E r \in BagToSet(flight) : MatchesFail(r)
  \/ \E m \in Matches : SelectMatch(m)
  \/ \E t \in AllTeams : SelectTeamP(t)
  \/ \E p \in AllPlayerNames : SelectPlayer(p)
  \/ \E r \in BagToSet(flight) : PlayersOk(r)
  \/ \E r \in BagToSet(flight) : PlayersFail(r)
  \/ \E r \in BagToSet(flight) : AnalysisOk(r)
  \/ \E r \in BagToSet(flight) : AnalysisFail(r)
  \/ \E r \in BagToSet(flight), ok \in BOOLEAN : SummaryDone(r, ok)
  \/ \E r \in BagToSet(flight), ok \in BOOLEAN : TeamStatsDone(r, ok)
  \/ \E r \in BagToSet(flight), ok \in BOOLEAN : FormationDone(r, ok)

\* ------------------------------------------------- Data Manager: the handlers
\* Ids of the competitions on offer (FALLBACK_COMPETITIONS, first two).
Competitions == {"wc2022", "euro2024"}

\* A request of the Data Manager awaiting its response. `owner` names the
\* mutating call that awaits a status reload ("" for a plain loadStatus()),
\* `match` its match id.
DmReq(kind, competition, team, m, owner) ==
  [kind |-> kind, competition |-> competition, team |-> team, match |-> m, owner |-> owner]

\* loadStatus() up to its await, called n times in one flush.
StatusReqs(competition, team, m, owner, n) ==
  [r \in {DmReq("status", competition, team, m, owner)} |-> n]

DmEvent(op, kind, m, sent) == [op |-> op, kind |-> kind, match |-> m, sent |-> sent]

\* The DataStatus answer of /api/data/status for a competition and a team
\* filter ("all": no team parameter), given the backend's cache.
Snapshot(competition, team) ==
  [competition |-> competition, team |-> team, cached |-> backend[competition]]

\* dataStatus.matches: the matches listed under the snapshot's team filter.
Listed(status) ==
  {m \in Matches : status.team = "all" \/ \E i \in 1..Len(MatchTeams(m)) :
                                             MatchTeams(m)[i] = status.team}

\* dataStatus.all_teams.
StatusTeams == {MatchTeams(m)[i] : m \in Matches, i \in 1..2}

DmInit ==
  /\ isOpen = FALSE
  /\ selectedCompetition = "wc2022"
  /\ dmSelectedTeam = "all"
  /\ dataStatus = Null
  /\ dmIsLoading = FALSE
  /\ fetchingMatch = Null
  /\ deletingMatch = Null
  /\ fetchingAll = FALSE
  /\ dmError = Null
  /\ dmFlight = One(DmReq("competitions", "", "", 0, ""))
  /\ dmResume = EmptyBag
  /\ backend = [c \in Competitions |-> IF c = "wc2022" THEN {1} ELSE {}]
  /\ emitted = 0
  /\ dmEvents = 0
  /\ dmFailures = 0
  /\ dmEv = DmEvent("init", "", 0, 0)

\* watch(() => props.isOpen) with open = true: loadCompetitions(), loadStatus().
OpenModal ==
  /\ ~isOpen
  /\ dmEvents < MaxDmEvents
  /\ isOpen' = TRUE
  /\ dmIsLoading' = TRUE
  /\ dmError' = Null
  /\ dmFlight' = dmFlight (+) One(DmReq("competitions", "", "", 0, ""))
                   (+) StatusReqs(selectedCompetition, dmSelectedTeam, 0, "", 1)
  /\ dmEvents' = dmEvents + 1
  /\ dmEv' = DmEvent("open", "", 0, 1)
  /\ UNCHANGED << selectedCompetition, dmSelectedTeam, dataStatus, fetchingMatch,
                  deletingMatch, fetchingAll, dmResume, backend, emitted, dmFailures, notDm >>

\* emit("close"), answered by the parent with isOpen = false.
CloseModal ==
  /\ isOpen
  /\ dmEvents < MaxDmEvents
  /\ isOpen' = FALSE
  /\ dmEvents' = dmEvents + 1
  /\ dmEv' = DmEvent("close", "", 0, 0)
  /\ UNCHANGED << selectedCompetition, dmSelectedTeam, dataStatus, dmIsLoading, fetchingMatch,
                  deletingMatch, fetchingAll, dmError, dmFlight, dmResume, backend, emitted,
                  dmFailures, notDm >>

\* The loadStatus() calls of one flush after selectedCompetition became
\* `competition`: one by watch(selectedCompetition), one more by
\* watch(selectedTeam) when the reset to "all" changed the team filter.
CompetitionReloads(competition) == IF dmSelectedTeam # "all" THEN 2 ELSE 1

\* watch(selectedCompetition), then watch(selectedTeam) for the reset.
CompetitionWatch(competition, op) ==
  /\ selectedCompetition' = competition
  /\ dmSelectedTeam' = "all"
  /\ dmIsLoading' = TRUE
  /\ dmError' = Null
  /\ dmEv' = DmEvent(op, "", 0, CompetitionReloads(competition))
  /\ UNCHANGED << isOpen, dataStatus, fetchingMatch, deletingMatch, fetchingAll, dmResume,
                  backend, emitted, dmFailures, notDm >>

\* loadCompetitions after its await, response ok with data.default = default
\* ("": no default); a changed selectedCompetition runs its watcher.
CompetitionsOk(r, default) ==
  /\ r \in BagToSet(dmFlight) /\ r.kind = "competitions"
  /\ IF default # "" /\ default # selectedCompetition
     THEN /\ CompetitionWatch(default, "default")
          /\ dmFlight' = (dmFlight (-) One(r))
                           (+) StatusReqs(default, "all", 0, "", CompetitionReloads(default))
     ELSE /\ dmFlight' = dmFlight (-) One(r)
          /\ dmEv' = DmEvent("ok", "competitions", 0, 0)
          /\ UNCHANGED << isOpen, selectedCompetition, dmSelectedTeam, dataStatus, dmIsLoading,
                          fetchingMatch, deletingMatch, fetchingAll, dmError, dmResume,
                          backend, emitted, dmFailures, notDm >>
  /\ UNCHANGED dmEvents

\* loadCompetitions: response not ok, or the catch block (the fallback list).
CompetitionsFail(r) ==
  /\ r \in BagToSet(dmFlight) /\ r.kind = "competitions"
  /\ dmFailures < MaxDmFailures
  /\ dmFailures' = dmFailures + 1
  /\ dmFlight' = dmFlight (-) One(r)
  /\ dmEv' = DmEvent("fail", "competitions", 0, 0)
  /\ UNCHANGED << isOpen, selectedCompetition, dmSelectedTeam, dataStatus, dmIsLoading,
                  fetchingMatch, deletingMatch, fetchingAll, dmError, dmResume, backend,
                  emitted, dmEvents, notDm >>

\* The competition <select v-model="selectedCompetition">.
SelectCompetition(competition) ==
  /\ isOpen
  /\ competition # selectedCompetition
  /\ dmEvents < MaxDmEvents
  /\ CompetitionWatch(competition, "competition")
  /\ dmFlight' = dmFlight (+) StatusReqs(competition, "all", 0, "", CompetitionReloads(competition))
  /\ dmEvents' = dmEvents + 1

\* The team <select v-model="selectedTeam">, then watch(selectedTeam).
SelectDmTeam(team) ==
  /\ isOpen
  /\ team # dmSelectedTeam
  /\ team = "all" \/ (dataStatus # Null /\ team \in StatusTeams)
  /\ dmEvents < MaxDmEvents
  /\ dmSelectedTeam' = team
  /\ dmIsLoading' = TRUE
  /\ dmError' = Null
  /\ dmFlight' = dmFlight (+) StatusReqs(selectedCompetition, team, 0, "", 1)
  /\ dmEvents' = dmEvents + 1
  /\ dmEv' = DmEvent("team", "", 0, 1)
  /\ UNCHANGED << isOpen, selectedCompetition, dataStatus, fetchingMatch, deletingMatch,
                  fetchingAll, dmResume, backend, emitted, dmFailures, notDm >>

\* The refresh button: @click="loadStatus", disabled while isLoading.
Refresh ==
  /\ isOpen
  /\ ~dmIsLoading
  /\ dmEvents < MaxDmEvents
  /\ dmIsLoading' = TRUE
  /\ dmError' = Null
  /\ dmFlight' = dmFlight (+) StatusReqs(selectedCompetition, dmSelectedTeam, 0, "", 1)
  /\ dmEvents' = dmEvents + 1
  /\ dmEv' = DmEvent("refresh", "", 0, 1)
  /\ UNCHANGED << isOpen, selectedCompetition, dmSelectedTeam, dataStatus, fetchingMatch,
                  deletingMatch, fetchingAll, dmResume, backend, emitted, dmFailures, notDm >>

\* What a successful mutating request did to the backend's cache; fetch-all
\* carries no competition parameter and fills the backend's default one.
Applied(r) ==
  CASE r.kind = "fetch"  -> [backend EXCEPT ![r.competition] = @ \cup {r.match}]
    [] r.kind = "delete" -> [backend EXCEPT ![r.competition] = @ \ {r.match}]
    [] OTHER             -> [backend EXCEPT !["wc2022"] = Matches]

\* fetchMatch(matchId) up to its await; the button is shown for a listed
\* match that is not complete and is disabled while that match is fetched.
FetchMatch(m) ==
  /\ isOpen
  /\ dataStatus # Null
  /\ m \in Listed(dataStatus[1]) \ dataStatus[1].cached
  /\ fetchingMatch # Some(m)
  /\ dmEvents < MaxDmEvents
  /\ fetchingMatch' = Some(m)
  /\ dmError' = Null
  /\ dmFlight' = dmFlight (+) One(DmReq("fetch", selectedCompetition, "", m, ""))
  /\ dmEvents' = dmEvents + 1
  /\ dmEv' = DmEvent("call", "fetch", m, 0)
  /\ UNCHANGED << isOpen, selectedCompetition, dmSelectedTeam, dataStatus, dmIsLoading,
                  deletingMatch, fetchingAll, dmResume, backend, emitted, dmFailures, notDm >>

\* deleteMatch(matchId), confirmed, up to its await.
DeleteMatch(m) ==
  /\ isOpen
  /\ dataStatus # Null
  /\ m \in Listed(dataStatus[1]) \cap dataStatus[1].cached
  /\ deletingMatch # Some(m)
  /\ dmEvents < MaxDmEvents
  /\ deletingMatch' = Some(m)
  /\ dmError' = Null
  /\ dmFlight' = dmFlight (+) One(DmReq("delete", selectedCompetition, "", m, ""))
  /\ dmEvents' = dmEvents + 1
  /\ dmEv' = DmEvent("call", "delete", m, 0)
  /\ UNCHANGED << isOpen, selectedCompetition, dmSelectedTeam, dataStatus, dmIsLoading,
                  fetchingMatch, fetchingAll, dmResume, backend, emitted, dmFailures, notDm >>

\* fetchAllMissing(), confirmed, up to its await; the button is shown while
\* the snapshot reports missing matches and is disabled while fetchingAll.
FetchAllMissing ==
  /\ isOpen
  /\ dataStatus # Null
  /\ Listed(dataStatus[1]) \ dataStatus[1].cached # {}
  /\ ~fetchingAll
  /\ dmEvents < MaxDmEvents
  /\ fetchingAll' = TRUE
  /\ dmError' = Null
  /\ dmFlight' = dmFlight (+) One(DmReq("fetchAll", "", "", 0, ""))
  /\ dmEvents' = dmEvents + 1
  /\ dmEv' = DmEvent("call", "fetchAll", 0, 0)
  /\ UNCHANGED << isOpen, selectedCompetition, dmSelectedTeam, dataStatus, dmIsLoading,
                  fetchingMatch, deletingMatch, dmResume, backend, emitted, dmFailures, notDm >>

Mutating == {"fetch", "delete", "fetchAll"}

\* Mutant: the mutating call emits as soon as its own response is ok.
EmitsOnResponse(r) == 1

\* dataChanged emissions of the step that receives the ok response of a
\* mutating request: none, the emit follows `await loadStatus()`.
EmitsBeforeReload(r) == 0

\* A mutating request answered ok: `await loadStatus()` starts the reload.
MutOk(r) ==
  /\ r \in BagToSet(dmFlight) /\ r.kind \in Mutating
  /\ backend' = Applied(r)
  /\ dmIsLoading' = TRUE
  /\ dmError' = Null
  /\ dmFlight' = (dmFlight (-) One(r))
                   (+) StatusReqs(selectedCompetition, dmSelectedTeam, r.match, r.kind, 1)
  /\ emitted' = emitted + EmitsBeforeReload(r)
  /\ dmEv' = DmEvent("ok", r.kind, r.match, 1)
  /\ UNCHANGED << isOpen, selectedCompetition, dmSelectedTeam, dataStatus, fetchingMatch,
                  deletingMatch, fetchingAll, dmResume, dmEvents, dmFailures, notDm >>

\* Mutant: the finally blocks leave the busy flags as they are.
FlagsKept(kind) == UNCHANGED << fetchingMatch, deletingMatch, fetchingAll >>

\* The busy flag of a mutating call back at idle (its finally block).
FlagsIdle(kind) ==
  /\ fetchingMatch' = IF kind = "fetch" THEN Null ELSE fetchingMatch
  /\ deletingMatch' = IF kind = "delete" THEN Null ELSE deletingMatch
  /\ fetchingAll' = IF kind = "fetchAll" THEN FALSE ELSE fetchingAll

\* Mutant: a failed mutating request reloads the snapshot all the same.
MutFailReloads(r) ==
  /\ r \in BagToSet(dmFlight) /\ r.kind \in Mutating
  /\ dmFailures < MaxDmFailures
  /\ dmFailures' = dmFailures + 1
  /\ dmError' = Some("Failed")
  /\ FlagsIdle(r.kind)
  /\ dmIsLoading' = TRUE
  /\ dmFlight' = (dmFlight (-) One(r))
                   (+) StatusReqs(selectedCompetition, dmSelectedTeam, 0, "", 1)
  /\ dmEv' = DmEvent("fail", r.kind, r.match, 1)
  /\ UNCHANGED << isOpen, selectedCompetition, dmSelectedTeam, dataStatus,
                  dmResume, backend, emitted, dmEvents, notDm >>

\* A mutating request answered not ok, or rejected: catch, then finally.
MutFail(r) ==
  /\ r \in BagToSet(dmFlight) /\ r.kind \in Mutating
  /\ dmFailures < MaxDmFailures
  /\ dmFailures' = dmFailures + 1
  /\ dmError' = Some("Failed")
  /\ FlagsIdle(r.kind)
  /\ dmFlight' = dmFlight (-) One(r)
  /\ dmEv' = DmEvent("fail", r.kind, r.match, 0)
  /\ UNCHANGED << isOpen, selectedCompetition, dmSelectedTeam, dataStatus, dmIsLoading,
                  dmResume, backend, emitted, dmEvents, notDm >>

\* The continuation of a mutating call that awaits this reload, if any.
Awaiting(r) ==
  IF r.owner = "" THEN EmptyBag ELSE One([kind |-> r.owner, match |-> r.match])

\* loadStatus after its await, response ok: the snapshot is replaced.
StatusOk(r) ==
  /\ r \in BagToSet(dmFlight) /\ r.kind = "status"
  /\ dataStatus' = Some(Snapshot(r.competition, r.team))
  /\ dmIsLoading' = FALSE
  /\ dmFlight' = dmFlight (-) One(r)
  /\ dmResume' = dmResume (+) Awaiting(r)
  /\ dmEv' = DmEvent("ok", "status", r.match, 0)
  /\ UNCHANGED << isOpen, selectedCompetition, dmSelectedTeam, fetchingMatch, deletingMatch,
                  fetchingAll, dmError, backend, emitted, dmEvents, dmFailures, notDm >>

\* loadStatus after its await, response not ok or rejected: the error is
\* kept inside loadStatus, the snapshot stays.
StatusFail(r) ==
  /\ r \in BagToSet(dmFlight) /\ r.kind = "status"
  /\ dmFailures < MaxDmFailures
  /\ dmFailures' = dmFailures + 1
  /\ dmError' = Some("Failed to load data status")
  /\ dmIsLoading' = FALSE
  /\ dmFlight' = dmFlight (-) One(r)
  /\ dmResume' = dmResume (+) Awaiting(r)
  /\ dmEv' = DmEvent("fail", "status", r.match, 0)
  /\ UNCHANGED << isOpen, selectedCompetition, dmSelectedTeam, dataStatus, fetchingMatch,
                  deletingMatch, fetchingAll, backend, emitted, dmEvents, notDm >>

\* A mutating call resumed after `await loadStatus()`: emit("dataChanged"),
\* then the finally block.
Resume(o) ==
  /\ o \in BagToSet(dmResume)
  /\ dmResume' = dmResume (-) One(o)
  /\ emitted' = emitted + 1
  /\ FlagsIdle(o.kind)
  /\ dmEv' = DmEvent("emit", o.kind, o.match, 0)
  /\ UNCHANGED << isOpen, selectedCompetition, dmSelectedTeam, dataStatus, dmIsLoading,
                  dmError, dmFlight, backend, dmEvents, dmFailures, notDm >>

DmNext ==
  \/ OpenModal
  \/ CloseModal
  \/ \E r \in BagToSet(dmFlight), default \in {""} \cup Competitions : CompetitionsOk(r, default)
  \/ \E r \in BagToSet(dmFlight) : CompetitionsFail(r)
  \/ \E competition \in Competitions : SelectCompetition(competition)
  \/ \E team \in {"all"} \cup StatusTeams : SelectDmTeam(team)
  \/ Refresh
  \/ \E m \in Matches : FetchMatch(m)
  \/ \E m \in Matches : DeleteMatch(m)
  \/ FetchAllMissing
  \/ \E r \in BagToSet(dmFlight) : MutOk(r)
  \/ \E r \in BagToSet(dmFlight) : MutFail(r)
  \/ \E r \in BagToSet(dmFlight) : StatusOk(r)
  \/ \E r \in BagToSet(dmFlight) : StatusFail(r)
  \/ \E o \in BagToSet(dmResume) : Resume(o)

\* ------------------------------------------- Player Comparison: the handlers
\* `!player1Id.value`: null and 0 are both falsy.
NoPlayer == 0

\* The options of the two <select>s: the ids of props.players, the players
\* list of the selected match.
CompareOptions ==
  IF cmpMatchId = NoMatch THEN {}
  ELSE {MatchPlayers(cmpMatchId)[i].player_id : i \in 1..Len(MatchPlayers(cmpMatchId))}

\* The request of comparePlayersApi, and the answer to it.
Comparison(p1, p2, m) == [player1 |-> p1, player2 |-> p2, match |-> m]

CmpEvent(op, sent) == [op |-> op, sent |-> sent]

CompareInit ==
  /\ cmpMatchId = NoMatch
  /\ player1Id = NoPlayer
  /\ player2Id = NoPlayer
  /\ comparisonData = Null
  /\ cmpIsLoading = FALSE
  /\ cmpFlight = EmptyBag
  /\ cmpEvents = 0
  /\ cmpEv = CmpEvent("init", FALSE)

\* comparePlayersApi() up to its await: the request it sends, none after an
\* early return.
comparePlayersApi(p1, p2, m) ==
  IF m = NoMatch \/ p1 = NoPlayer \/ p2 = NoPlayer THEN EmptyBag
  ELSE IF p1 = p2 THEN EmptyBag
  ELSE One(Comparison(p1, p2, m))

\* watch([player1Id, player2Id]) after the pair became << p1, p2 >>.
CompareWatch(p1, p2) ==
  LET new == IF p1 # NoPlayer /\ p2 # NoPlayer /\ p1 # p2
             THEN comparePlayersApi(p1, p2, cmpMatchId) ELSE EmptyBag
  IN /\ cmpFlight' = cmpFlight (+) new
     /\ cmpIsLoading' = IF new # EmptyBag THEN TRUE ELSE cmpIsLoading
     /\ cmpEv' = CmpEvent("select", new # EmptyBag)

\* <select v-model="player1Id">.
SelectPlayer1(id) ==
  /\ id \in CompareOptions
  /\ id # player1Id
  /\ cmpEvents < MaxCmpEvents
  /\ player1Id' = id
  /\ CompareWatch(id, player2Id)
  /\ cmpEvents' = cmpEvents + 1
  /\ UNCHANGED << cmpMatchId, player2Id, comparisonData, notCmp >>

\* <select v-model="player2Id">.
SelectPlayer2(id) ==
  /\ id \in CompareOptions
  /\ id # player2Id
  /\ cmpEvents < MaxCmpEvents
  /\ player2Id' = id
  /\ CompareWatch(player1Id, id)
  /\ cmpEvents' = cmpEvents + 1
  /\ UNCHANGED << cmpMatchId, player1Id, comparisonData, notCmp >>

\* The parent selects another match: props.matchId and props.players change;
\* the component has no watcher on either.
CompareMatchChange(m) ==
  /\ m # cmpMatchId
  /\ cmpEvents < MaxCmpEvents
  /\ cmpMatchId' = m
  /\ cmpEvents' = cmpEvents + 1
  /\ cmpEv' = CmpEvent("match", FALSE)
  /\ UNCHANGED << player1Id, player2Id, comparisonData, cmpIsLoading, cmpFlight, notCmp >>

\* comparePlayersApi after its await: res.ok assigns comparisonData, every
\* other outcome leaves it; finally lowers isLoading.
CompareDone(r, ok) ==
  /\ r \in BagToSet(cmpFlight)
  /\ cmpFlight' = cmpFlight (-) One(r)
  /\ comparisonData' = IF ok THEN Some(r) ELSE comparisonData
  /\ cmpIsLoading' = FALSE
  /\ cmpEv' = CmpEvent(IF ok THEN "ok" ELSE "fail", FALSE)
  /\ UNCHANGED << cmpMatchId, player1Id, player2Id, cmpEvents, notCmp >>

AllPlayerIds ==
  UNION {{MatchPlayers(m)[i].player_id : i \in 1..Len(MatchPlayers(m))} : m \in Matches}

CompareNext ==
  \/ \E id \in AllPlayerIds : SelectPlayer1(id)
  \/ \E id \in AllPlayerIds : SelectPlayer2(id)
  \/ \E m \in Matches : CompareMatchChange(m)
  \/ \E r \in BagToSet(cmpFlight), ok \in BOOLEAN : CompareDone(r, ok)

\* ------------------------------------------------------------ Pitch Renderer
\* Mutant: the outcome compared as it is spelled.
actionColorExact(a) ==
  IF a = Null THEN "#666"
  ELSE LET outcome == a[1].outcome
       IN IF outcome \in {"goal", "complete", "won", "success"} THEN "#22c55e"
          ELSE IF outcome \in {"incomplete", "missed", "lost", "out", "pass offside",
                               "unknown", "fail", "failed"} THEN "#ef4444"
          ELSE IF outcome \in {"saved", "blocked"} THEN "#3b82f6"
          ELSE IF outcome = ""
               THEN (IF a[1].team_color # "" THEN a[1].team_color ELSE "#06b6d4")
          ELSE "#ef4444"

\* The computed actionColor for the prop value a (null, or an action).
actionColor(a) ==
  IF a = Null THEN "#666"
  ELSE LET outcome == ToLower(a[1].outcome)
       IN IF outcome \in {"goal", "complete", "won", "success"} THEN "#22c55e"
          ELSE IF outcome \in {"incomplete", "missed", "lost", "out", "pass offside",
                               "unknown", "fail", "failed"} THEN "#ef4444"
          ELSE IF outcome \in {"saved", "blocked"} THEN "#3b82f6"
          ELSE IF outcome = ""
               THEN (IF a[1].team_color # "" THEN a[1].team_color ELSE "#06b6d4")
          ELSE "#ef4444"

\* The computed isSuccess.
isSuccess(a) ==
  IF a = Null THEN TRUE
  ELSE ToLower(a[1].outcome) \in {"goal", "complete", "won", "success"}

\* The computed hasMovement.
hasMovement(a) ==
  IF a = Null THEN FALSE
  ELSE /\ a[1].start_coords # <<>>
       /\ a[1].end_coords # <<>>
       /\ a[1].action_type \in {"pass", "carry", "dribble"}

\* The computed isPointAction.
isPointAction(a) ==
  IF a = Null THEN FALSE
  ELSE IF a[1].action_type \in {"shot", "defense"} THEN TRUE
  ELSE IF a[1].action_type = "dribble" /\ a[1].coords # <<>> THEN TRUE
  ELSE IF a[1].coords # <<>> /\ ~(a[1].start_coords # <<>> /\ a[1].end_coords # <<>>) THEN TRUE
  ELSE FALSE

\* The computed hasDrawableCoords.
hasDrawableCoords(a) ==
  IF a = Null THEN FALSE
  ELSE \/ (a[1].start_coords # <<>> /\ a[1].end_coords # <<>>)
       \/ (a[1].coords # <<>> /\ Len(a[1].coords) >= 2)

\* Mutant: the point branch taken on isPointAction alone.
ShapeUnguarded(a) ==
  IF hasMovement(a) /\ a[1].start_coords # <<>> /\ a[1].end_coords # <<>> THEN "movement"
  ELSE IF isPointAction(a) THEN "point"
  ELSE "empty"

\* The template's v-if / v-else-if / v-else chain for the active action.
Shape(a) ==
  IF hasMovement(a) /\ a[1].start_coords # <<>> /\ a[1].end_coords # <<>> THEN "movement"
  ELSE IF isPointAction(a) /\ a[1].coords # <<>> /\ Len(a[1].coords) >= 2 THEN "point"
  ELSE "empty"

\* Mutant: an action without a drawable shape drawn at the pitch center.
DrawnDefaulted(a) ==
  CASE Shape(a) = "movement" -> << a[1].start_coords, a[1].end_coords >>
    [] Shape(a) = "point" -> << a[1].coords >>
    [] a # Null -> << << 60, 40 >> >>
    [] OTHER -> <<>>

\* The coordinate pairs the chosen branch binds to SVG attributes.
Drawn(a) ==
  CASE Shape(a) = "movement" -> << a[1].start_coords, a[1].end_coords >>
    [] Shape(a) = "point" -> << a[1].coords >>
    [] OTHER -> <<>>

\* Outcome strings a caller may pass, in several spellings.
OutcomeSamples ==
  {"", "goal", "Goal", "GOAL", "complete", "COMPLETE", "Won", "Success", "incomplete",
   "Incomplete", "Missed", "lost", "Out", "Pass Offside", "unknown", "Fail", "FAILED",
   "saved", "SAVED", "Blocked", "banana", "Banana"}

\* Values of the activeAction prop: every combination of action type and
\* present or absent coordinates, and every outcome spelling with and without
\* a team color.
ActionSamples ==
  { VizData(type, "Messi", start, end, coords, outcome, "") :
      type \in {"pass", "carry", "dribble", "shot", "defense", "other", ""},
      start \in {<<>>, <<40, 30>>},
      end \in {<<>>, <<70, 35>>},
      coords \in {<<>>, <<60>>, <<108, 38>>},
      outcome \in {"goal", "Incomplete"} }
  \cup
  { VizData("shot", "Messi", <<>>, <<>>, <<108, 38>>, outcome, color) :
      outcome \in OutcomeSamples, color \in {"", "#75aadb"} }

\* The renderer as the orchestrator mounts it, before any analysis arrived.
PitchInit == activeAction = Null

\* The parent re-renders with another value of the prop.
SetActiveAction(a) ==
  /\ a # activeAction
  /\ activeAction' = a
  /\ UNCHANGED notPitch

PitchNext == \E a \in {Null} \cup {Some(x) : x \in ActionSamples} : SetActiveAction(a)

\* ----------------------------------------------- derived view of the analysis
\* [...list].sort((a, b) => b.minute - a.minute): Array.prototype.sort is
\* stable, so x goes behind every element whose minute is not smaller.
InsertByMinute(x, sorted) ==
  LET k == Cardinality({i \in 1..Len(sorted) : sorted[i].minute >= x.minute})
  IN SubSeq(sorted, 1, k) \o << x >> \o SubSeq(sorted, k + 1, Len(sorted))

RECURSIVE SortByMinute(_)
SortByMinute(list) ==
  IF list = <<>> THEN <<>>
  ELSE InsertByMinute(list[Len(list)], SortByMinute(SubSeq(list, 1, Len(list) - 1)))

\* .map(h => ({ ...h, impact })) over a list of moments.
Tagged(list, impact) == [i \in 1..Len(list) |-> [list[i] EXCEPT !.impact = impact]]

\* Mutant: the concatenation left in the order of the answer.
criticalMomentsUnsorted(analysis) ==
  IF analysis = Null THEN <<>>
  ELSE Tagged(analysis[1].top_highlights, "positive")
       \o Tagged(analysis[1].areas_for_improvement, "negative")

\* The computed criticalMoments for playerAnalysis.value = analysis.
criticalMoments(analysis) ==
  IF analysis = Null THEN <<>>
  ELSE SortByMinute(Tagged(analysis[1].top_highlights, "positive")
                    \o Tagged(analysis[1].areas_for_improvement, "negative"))

\* A number of the view model as a fraction << numerator, denominator >> with
\* a positive denominator.
Rat(n, d) == << n, d >>

RLe(a, b) == a[1] * b[2] <= b[1] * a[2]

REq(a, b) == a[1] * b[2] = b[1] * a[2]

\* Math.min and Math.max.
RMin(a, b) == IF RLe(a, b) THEN a ELSE b

RMax(a, b) == IF RLe(a, b) THEN b ELSE a

Digits == << "0", "1", "2", "3", "4", "5", "6", "7", "8", "9" >>

IsDigit(c) == \E d \in 1..10 : Digits[d] = c

DigitValue(c) == (CHOOSE d \in 1..10 : Digits[d] = c) - 1

RECURSIVE DigitsValue(_, _)
\* The value of the leading decimal digits of chars, after the value acc.
DigitsValue(chars, acc) ==
  IF chars # <<>> /\ IsDigit(Head(chars))
  THEN DigitsValue(Tail(chars), 10 * acc + DigitValue(Head(chars)))
  ELSE acc

\* parseInt(string, 10) on a string without leading blanks: an optional sign
\* and the leading digits; Null is NaN.
ParseInt(chars) ==
  LET signed == chars # <<>> /\ Head(chars) \in {"-", "+"}
      body == IF signed THEN Tail(chars) ELSE chars
  IN IF body = <<>> \/ ~IsDigit(Head(body)) THEN Null
     ELSE Some((IF signed /\ Head(chars) = "-" THEN -1 ELSE 1) * DigitsValue(body, 0))

\* Mutant: the positive-impact score without its upper clamp.
performanceBreakdownUnclamped(analysis) ==
  IF analysis = Null THEN Null
  ELSE LET stats == analysis[1].stats
           total == IF stats.total_actions # 0 THEN stats.total_actions ELSE 1
           hasPassData == stats.pass_accuracy # <<>> /\ stats.pass_accuracy # << "N", "/", "A" >>
           parsed == ParseInt(stats.pass_accuracy)
           passPct == IF parsed # Null /\ parsed # Some(0) THEN parsed[1] ELSE 0
       IN Some([positiveImpact |-> Rat(stats.positive_contributions * 10, total),
                ballRetention |->
                  RMax(Rat(0, 1), Rat(10 * total - stats.negative_contributions * 10, total)),
                passReliability |-> IF hasPassData THEN Some(Rat(passPct, 10)) ELSE Null,
                highlightDensity |-> RMin(Rat(10, 1), Rat(stats.highlights_count * 25, total)),
                netValue |->
                  RMin(Rat(10, 1), RMax(Rat(0, 1), Rat(stats.total_value_added + 200, 70)))])

\* The computed performanceBreakdown for playerAnalysis.value = analysis
\* (every sampled answer has a stats record). total_value_added is in
\* hundredths, so (value + 2) / 0.7 is (value + 200) / 70.
performanceBreakdown(analysis) ==
  IF analysis = Null THEN Null
  ELSE LET stats == analysis[1].stats
           total == IF stats.total_actions # 0 THEN stats.total_actions ELSE 1
           hasPassData == stats.pass_accuracy # <<>> /\ stats.pass_accuracy # << "N", "/", "A" >>
           parsed == ParseInt(stats.pass_accuracy)
           passPct == IF parsed # Null /\ parsed # Some(0) THEN parsed[1] ELSE 0
       IN Some([positiveImpact |->
                  RMin(Rat(10, 1), Rat(stats.positive_contributions * 10, total)),
                ballRetention |->
                  RMax(Rat(0, 1), Rat(10 * total - stats.negative_contributions * 10, total)),
                passReliability |-> IF hasPassData THEN Some(Rat(passPct, 10)) ELSE Null,
                highlightDensity |-> RMin(Rat(10, 1), Rat(stats.highlights_count * 25, total)),
                netValue |->
                  RMin(Rat(10, 1), RMax(Rat(0, 1), Rat(stats.total_value_added + 200, 70)))])

\* pass_accuracy strings of the backend: percentages, "N/A", and the empty
\* string (a missing field is falsy in the same way).
AccuracySamples ==
  { << "7", "3", "%" >>, << "1", "0", "0", "%" >>, << "0", "%" >>, << "8", "%" >>,
    << "N", "/", "A" >>, <<>> }

\* Stats records: counts of actions and signed value added (in hundredths).
StatsSamples ==
  { Stats(total, pos, neg, highlights, value, accuracy) :
      total \in {0, 10, 40},
      pos \in {0, 5, 50},
      neg \in {0, 4, 60},
      highlights \in {0, 3, 20},
      value \in {-300, -50, 35, 900},
      accuracy \in AccuracySamples }

\* History record of a click on the index-th entry of the moments list.
ShowEvent(index, hit) ==
  [op |-> "show", kind |-> "moment", match |-> selectedMatchId, hit |-> hit, index |-> index]

\* showOnMap(moment) for the index-th card of the moments list, which is
\* rendered when the analysis is neither loading nor in error.
showOnMap(index) ==
  /\ ~isLoadingAnalysis
  /\ analysisError = Null
  /\ index \in 1..Len(criticalMoments(playerAnalysis))
  /\ LET moment == criticalMoments(playerAnalysis)[index]
     IN /\ activeHighlightVizData' = Some(VizOf(moment, allPositions))
        /\ ev' = ShowEvent(index, moment.pitch_viz_data = Null)
  /\ UNCHANGED << matches, selVars, players, playerAnalysis, allPositions, matchSummary,
                  teamStats, formation, formationNumber, flagVars, flight, clean, failures,
                  selections, notPlayer >>

\* The Clear button: @click="activeHighlightVizData = null".
ClearViz ==
  /\ activeHighlightVizData # Null
  /\ activeHighlightVizData' = Null
  /\ ev' = PEvent("clear", "", selectedMatchId, FALSE)
  /\ UNCHANGED << matches, selVars, players, playerAnalysis, allPositions, matchSummary,
                  teamStats, formation, formationNumber, flagVars, flight, clean, failures,
                  selections, notPlayer >>

\* Moments the backend may send, with and without pitch_viz_data.
MomentSamples ==
  { Moment(12, -4, "Pass", Null),
    Moment(80, 8, "Shot", Some(PointViz("shot", "Messi", <<108, 38>>, "Goal", "#75aadb"))),
    Moment(10, 5, "", Null),
    Moment(45, 0, "Dribble",
           Some(VizData("pass", "Messi", <<40, 30>>, <<70, 35>>, <<>>, "Complete", ""))),
    Moment(45, 3, "Pass", Some(VizData("pass", "Messi", <<40, 30>>, <<>>, <<>>, "Incomplete", ""))),
    Moment(80, -2, "Carry", Null) }

\* all_positions samples: empty, one position, five positions.
PositionSamples ==
  { <<>>,
    << Position(30, 20, "Pass") >>,
    << Position(70, 20, "Pass"), Position(75, 25, "Carry"), Position(88, 44, "Shot"),
       Position(60, 50, "Pass"), Position(66, 35, "Dribble") >> }

SeqsUpTo(S, n) == UNION {[1..k -> S] : k \in 0..n}

\* Analysis answers over the samples: at most MaxHighlights top highlights
\* and MaxLowlights areas for improvement.
AnalysisSamples ==
  { [player_name |-> "Messi", match |-> 1,
     stats |-> Stats(40, 22, 6, 3, 35, << "7", "3", "%" >>),
     top_highlights |-> hs, areas_for_improvement |-> ls, all_positions |-> ps] :
      hs \in SeqsUpTo(MomentSamples, MaxHighlights),
      ls \in SeqsUpTo(MomentSamples, MaxLowlights),
      ps \in PositionSamples }
  \cup
  { [player_name |-> "Messi", match |-> 1, stats |-> st,
     top_highlights |-> << Moment(12, -4, "Pass", Null) >>,
     areas_for_improvement |-> <<>>, all_positions |-> <<>>] : st \in StatsSamples }

\* The page after match 1 has loaded and the analysis request of its first
\* player was answered with `data` (fetchPlayerAnalysis lines 305-320).
Loaded(data) ==
  /\ matches = AllMatches
  /\ selectedMatchId = 1
  /\ isLoadingMatches = FALSE
  /\ players = MatchPlayers(1)
  /\ selectedPlayerName = "Messi"
  /\ selectedTeam = "Argentina"
  /\ isLoadingPlayers = FALSE
  /\ isLoadingAnalysis = FALSE
  /\ analysisError = Null
  /\ playerAnalysis = Some(data)
  /\ activeHighlightVizData = FirstViz(data)
  /\ allPositions = data.all_positions
  /\ matchSummary = Some([match |-> 1])
  /\ isLoadingMatchSummary = FALSE
  /\ teamStats = Some([match |-> 1, team |-> "Argentina"])
  /\ isLoadingTeamStats = FALSE
  /\ formation = << [match |-> 1, team |-> "Argentina"] >>
  /\ formationNumber = Some(442)
  /\ flight = EmptyBag
  /\ clean = TRUE
  /\ failures = 0
  /\ selections = 0
  /\ ev = PEvent("ok", "analysis", 1, FALSE)

\* The page after match 1 has loaded and the analysis request of its first
\* player failed (fetchPlayerAnalysis lines 321-326).
LoadedWithoutAnalysis ==
  /\ matches = AllMatches
  /\ selectedMatchId = 1
  /\ isLoadingMatches = FALSE
  /\ players = MatchPlayers(1)
  /\ selectedPlayerName = "Messi"
  /\ selectedTeam = "Argentina"
  /\ isLoadingPlayers = FALSE
  /\ isLoadingAnalysis = FALSE
  /\ analysisError = Some("Failed to fetch analysis")
  /\ playerAnalysis = Null
  /\ activeHighlightVizData = Null
  /\ allPositions = <<>>
  /\ matchSummary = Some([match |-> 1])
  /\ isLoadingMatchSummary = FALSE
  /\ teamStats = Some([match |-> 1, team |-> "Argentina"])
  /\ isLoadingTeamStats = FALSE
  /\ formation = << [match |-> 1, team |-> "Argentina"] >>
  /\ formationNumber = Some(442)
  /\ flight = EmptyBag
  /\ clean = TRUE
  /\ failures = 1
  /\ selections = 0
  /\ ev = PEvent("fail", "analysis", 1, FALSE)

ViewInit ==
  /\ TabInit
  /\ PitchInit
  /\ DmInit
  /\ CompareInit
  /\ (\E data \in AnalysisSamples : Loaded(data)) \/ LoadedWithoutAnalysis

ViewNext ==
  \/ \E index \in 1..(MaxHighlights + MaxLowlights) : showOnMap(index)
  \/ ClearViz

SpecView == ViewInit /\ [][ViewNext]_vars

Init == TabInit /\ PlayerInit /\ PitchInit /\ DmInit /\ CompareInit

Next == TabNext

Spec == Init /\ [][Next]_vars

\* Every request is answered in the end (fetch resolves or rejects), and the
\* parent's players list arrives; the user is under no obligation to act.
TabResponds == \E r \in BagToSet(tabFlight) : ResolveOk(r) \/ ResolveFail(r)

ParentResponds == \E m \in Matches : TeamsChange(m)

SpecLive == Init /\ [][Next]_vars /\ WF_vars(TabResponds) /\ WF_vars(ParentResponds)

\* The tab controller with match 1 loaded and the passing tab open on the
\* passing network of `team`: Argentina after the auto-selection, France
\* after the user chose it in the team <select>. The count of user events
\* starts afresh.
PassingOpen(team) ==
  /\ matchId = 1
  /\ teams = teamsOf(MatchPlayers(1))
  /\ activeTab = "passing"
  /\ tabData = [AllNull EXCEPT !["momentum"] = Some([match |-> 1, team |-> ""]),
                               !["passing"] = Some([match |-> 1, team |-> team])]
  /\ isLoading = FALSE
  /\ tabTeam = team
  /\ tabFlight = EmptyBag
  /\ parentPlayers = {}
  /\ requested = {"momentum", "passing"}
  /\ tabEvents = 0
  /\ tabEv = Event("ok", "passing", 1, team, FALSE)

PassingInit ==
  /\ \E team \in {"Argentina", "France"} : PassingOpen(team)
  /\ PlayerInit /\ PitchInit /\ DmInit /\ CompareInit

SpecPassing == PassingInit /\ [][Next]_vars

SpecPlayer == Init /\ [][PlayerNext]_vars

SpecDm == Init /\ [][DmNext]_vars

SpecPitch == Init /\ [][PitchNext]_vars

SpecCompare == Init /\ [][CompareNext]_vars

\* The orchestrator and the Data Manager on one page. The two components
\* share no state, so a step of one preserves every property of the other's
\* variables; their fetch functions are explored one component per behaviour.
PlayerAlone == dmEv.op = "init" /\ PlayerNext

DmAlone == ev.op = "init" /\ DmNext

PageNext == PlayerAlone \/ DmAlone

SpecPage == Init /\ [][PageNext]_vars

\* ------------------------------------------------- Analytics Tab Controller
\* A request for `slot` is sent in this step.
Sent(slot) ==
  \E r \in BagToSet(tabFlight') :
    r.slot = slot /\ CopiesIn(r, tabFlight') > CopiesIn(r, tabFlight)

SameSelection == matchId' = matchId /\ tabTeam' = tabTeam

\* C1: activating a tab whose slot is already populated, with match and team
\* unchanged, sends no request and leaves all six slots as they are.
C1_PopulatedTabIsIdle ==
  [][(activeTab' # activeTab /\ tabData[activeTab'] # Null /\ SameSelection)
       => (tabFlight' = tabFlight /\ tabData' = tabData)]_vars

\* The user came back to a tab whose slot holds data.
C1_Witness ==
  /\ tabEv.op = "tab"
  /\ tabEv.hit
  /\ tabData[activeTab] # Null

\* C2: every change of the match id clears all six slots and sends exactly one
\* request, the momentum request for the new match.
C2_MatchChangeClearsAndFetchesMomentum ==
  [][matchId' # matchId
       => /\ tabData' = AllNull
          /\ tabFlight' = tabFlight (+) One(Req("momentum", matchId', ""))]_vars

\* The match changed while a tab other than momentum was shown with data.
C2_Witness ==
  /\ tabEv.op = "match"
  /\ tabEv.hit
  /\ activeTab # "momentum"
  /\ tabData = AllNull

\* C3 as claimed: for a fixed (match, team) a dataset already requested is never
\* requested again, also while its first request is still in flight.
C3_RequestedExactlyOnce ==
  [][\A slot \in Tabs : (slot \in requested /\ SameSelection) => ~Sent(slot)]_vars

\* C3 as amended: for a fixed (match, team) a request is sent exactly by the
\* activation of a tab whose slot is empty at that moment, one request for that
\* tab's dataset; a populated slot is never requested, an empty one is
\* requested again (in flight or failed).
C3_RequestedWhenEmpty ==
  [][SameSelection
       => IF activeTab' # activeTab /\ tabData[activeTab'] = Null /\ matchId # NoMatch
          THEN tabFlight' = tabFlight (+)
                 One(Req(activeTab', matchId,
                         IF activeTab' = "passing" THEN PassingTeam(tabTeam, teams) ELSE ""))
          ELSE \A slot \in Tabs : ~Sent(slot)]_vars

\* The same dataset is in flight twice for one (match, team): the user came
\* back to a tab whose first request had not resolved.
C3_Witness ==
  /\ tabEv.op = "tab"
  /\ \E r \in BagToSet(tabFlight) :
       r.slot = activeTab /\ r.match = matchId /\ CopiesIn(r, tabFlight) = 2

\* C4: a change of the selected team with the passing tab active nulls the
\* passing slot and sends a passing-network request carrying the new team;
\* with another tab active it clears nothing and sends nothing.
C4_TeamChangeRefetchesPassing ==
  [][tabTeam' # tabTeam
       => IF activeTab = "passing"
          THEN /\ tabData' = [tabData EXCEPT !["passing"] = Null]
               /\ tabFlight' = tabFlight (+) One(Req("passing", matchId, tabTeam'))
               /\ matchId # NoMatch
          ELSE tabData' = tabData /\ tabFlight' = tabFlight]_vars

\* The user picked another team on the passing tab while its slot held data.
C4_Witness ==
  /\ tabEv.op = "team"
  /\ tabEv.hit
  /\ tabData["passing"] = Null
  /\ CopiesIn(Req("passing", matchId, tabTeam), tabFlight) = 1

\* C5 as claimed: after a request has failed, the slot it targets is null.
C5_FailedSlotIsNull ==
  tabEv.op = "fail" => tabData[tabEv.slot] = Null

\* C5 as amended: a failed request leaves all six slots as they were (its own
\* slot stays empty if it was empty, and keeps the data an overlapping or
\* earlier response wrote) and sends no retry.
C5_FailureKeepsSlot ==
  [][tabEv'.op = "fail"
       => /\ tabData' = tabData
          /\ tabFlight' = tabFlight (-) One(Req(tabEv'.slot, tabEv'.match, tabEv'.team))
          /\ \A slot \in Tabs : ~Sent(slot)]_vars

\* A request failed after an overlapping request had populated its slot.
C5_Witness ==
  /\ tabEv.op = "fail"
  /\ tabEv.hit
  /\ tabData[tabEv.slot] # Null

\* C6: nothing cancels or discards a request in flight (a request leaves the
\* bag only by its own response), and a successful response is written to its
\* slot whatever is selected by then, so the response resolved last wins.
C6_LastResponseWins ==
  [][/\ \A r \in BagToSet(tabFlight) :
          CopiesIn(r, tabFlight') >=
            CopiesIn(r, tabFlight) -
              (IF tabEv'.op \in {"ok", "fail"}
                  /\ r = Req(tabEv'.slot, tabEv'.match, tabEv'.team) THEN 1 ELSE 0)
     /\ tabEv'.op = "ok"
          => tabData'[tabEv'.slot] = Some([match |-> tabEv'.match, team |-> tabEv'.team])]_vars

\* No request is in flight and the momentum slot holds the data of a match
\* that is no longer selected: its response resolved after, and overwrote, the
\* one written since the match changed.
C6_Witness ==
  /\ tabFlight = EmptyBag
  /\ tabEv.op = "ok"
  /\ tabEv.slot = "momentum"
  /\ tabEv.hit
  /\ tabData["momentum"] # Null
  /\ tabData["momentum"][1].match # matchId

\* ------------------------------------------------ Player Analysis Orchestrator
\* The slot a fetch of `kind` populates is empty.
SlotEmpty(kind) ==
  CASE kind = "players" -> players = <<>>
    [] kind = "analysis" -> playerAnalysis = Null
    [] kind = "summary" -> matchSummary = Null
    [] kind = "teamStats" -> teamStats = Null
    [] kind = "formation" -> formation = <<>>
    [] OTHER -> TRUE

\* Every request has resolved, all of them successfully, and no two analysis
\* requests were ever in flight together.
SettledOk == flight = EmptyBag /\ failures = 0 /\ clean

\* C7 as claimed: once every request triggered by the changes of the selected
\* match and player has resolved successfully, playerAnalysis is the response
\* for the selected player in the selected match.
C7_AnalysisFollowsSelection ==
  (SettledOk /\ selectedPlayerName # "" /\ selectedMatchId # NoMatch)
    => playerAnalysis = Some(AnalysisOf(selectedPlayerName, selectedMatchId))

\* C8 as claimed: the step that changes the selected match empties every slot
\* that depends on the match.
C8_MatchChangeClearsSlots ==
  [][selectedMatchId' # selectedMatchId
       => /\ players' = <<>>
          /\ playerAnalysis' = Null
          /\ allPositions' = <<>>
          /\ activeHighlightVizData' = Null
          /\ matchSummary' = Null
          /\ teamStats' = Null
          /\ formation' = <<>>]_vars

\* C9 as claimed: a successful players fetch that finds a player selected
\* leaves the selected player and the selected team as they are.
C9_AutoSelectOnlyIfNone ==
  [][(ev'.op = "ok" /\ ev'.kind = "players" /\ selectedPlayerName # "")
       => (selectedPlayerName' = selectedPlayerName /\ selectedTeam' = selectedTeam)]_vars

\* C9 as amended: a successful players fetch selects the first team of the
\* response and the first player of that team whenever there is one, whether
\* or not a player was selected before; otherwise it leaves both as they are.
C9_AutoSelectAlways ==
  [][(ev'.op = "ok" /\ ev'.kind = "players")
       => LET tms == MatchTeams(ev'.match)
              first == IF Len(tms) > 0 THEN FirstOfTeam(players', tms[1]) ELSE 0
          IN IF first > 0
             THEN /\ selectedTeam' = tms[1]
                  /\ selectedPlayerName' = players'[first].player_name
             ELSE selectedPlayerName' = selectedPlayerName /\ selectedTeam' = selectedTeam]_vars

\* A players response arrived while a player was selected and replaced the
\* selection by the first player of its first team.
C9_Witness ==
  /\ ev.op = "ok"
  /\ ev.kind = "players"
  /\ ev.hit
  /\ selectedTeam = MatchTeams(ev.match)[1]
  /\ selectedPlayerName = players[FirstOfTeam(players, selectedTeam)].player_name

\* C10 as claimed: after the failure of a fetch of the players, the analysis,
\* the match summary, the team stats or the formation, an error string is set
\* and the slot of that fetch is empty.
C10_FailureSetsErrorAndClearsSlot ==
  (ev.op = "fail" /\ ev.kind \in {"players", "analysis", "summary", "teamStats", "formation"})
    => (analysisError # Null /\ SlotEmpty(ev.kind))

\* ------------------------------------------------------------ derived view
\* The moment whose card was clicked in the step that ends in this state
\* (the analysis is not changed by the click).
Clicked == criticalMoments(playerAnalysis)[ev.index]

\* C11: for a clicked moment without pitch_viz_data the active visualization
\* is the point allPositions[minute mod max(1, len)] (0-based), the pitch
\* center (60, 40) when allPositions is empty; its outcome is "complete" and
\* its color green iff the impact tag is "positive" or highlight_score > 0,
\* otherwise "incomplete" and red.
C11_FallbackSynthesis ==
  [][(ev'.op = "show" /\ ev'.hit)
       => LET m == criticalMoments(playerAnalysis)[ev'.index]
              n == Len(allPositions)
              index == m.minute % (IF n > 1 THEN n ELSE 1)
              positive == m.impact = "positive" \/ m.highlight_score > 0
              viz == activeHighlightVizData'[1]
          IN /\ activeHighlightVizData' # Null
             /\ viz.coords = IF n = 0 THEN << 60, 40 >>
                             ELSE << allPositions[index + 1].x, allPositions[index + 1].y >>
             /\ viz.outcome = IF positive THEN "complete" ELSE "incomplete"
             /\ viz.team_color = IF positive THEN "#22c55e" ELSE "#ef4444"]_vars

\* The spec's example: a lowlight at minute 12 with a negative score and five
\* positions shows the third position, incomplete and red.
C11_Witness ==
  /\ ev.op = "show"
  /\ ev.hit
  /\ Len(allPositions) = 5
  /\ Clicked.minute = 12
  /\ Clicked.highlight_score < 0
  /\ Clicked.impact = "negative"
  /\ activeHighlightVizData # Null
  /\ activeHighlightVizData[1].coords = << allPositions[3].x, allPositions[3].y >>
  /\ activeHighlightVizData[1].outcome = "incomplete"
  /\ activeHighlightVizData[1].team_color = "#ef4444"

\* C12 as claimed: after a click on any moment of the list, with or without
\* a pitch_viz_data payload, the renderer draws the active visualization as a
\* movement or as a point, never the empty-state caption.
C12_ClickedMomentIsDrawn ==
  ev.op = "show" => Shape(activeHighlightVizData) \in {"movement", "point"}

\* ------------------------------------------------------------ Pitch Renderer
\* C13: for an active action, isSuccess is true iff the lower-cased outcome is
\* goal, complete, won or success; actionColor is green for these, blue for
\* saved and blocked, the team color or else teal for the empty outcome, and
\* red for every other outcome, listed or not.
C13_OutcomeClassification ==
  activeAction # Null
    => LET outcome == ToLower(activeAction[1].outcome)
           success == outcome \in {"goal", "complete", "won", "success"}
       IN /\ isSuccess(activeAction) <=> success
          /\ actionColor(activeAction) =
               CASE success -> "#22c55e"
                 [] outcome \in {"saved", "blocked"} -> "#3b82f6"
                 [] outcome = "" -> IF activeAction[1].team_color # ""
                                    THEN activeAction[1].team_color ELSE "#06b6d4"
                 [] OTHER -> "#ef4444"

\* The renderer is given the outcome "GOAL" and colors it success-green.
C13_Witness ==
  /\ activeAction # Null
  /\ activeAction[1].outcome = "GOAL"
  /\ isSuccess(activeAction)
  /\ actionColor(activeAction) = "#22c55e"

\* The conditions of C14 on an action x: both ends of a movement are present,
\* and the claimed condition of point rendering.
BothEnds(x) == x.start_coords # <<>> /\ x.end_coords # <<>>

MovementChosen(x) == BothEnds(x) /\ x.action_type \in {"pass", "carry", "dribble"}

PointClaimed(x) ==
  \/ x.action_type \in {"shot", "defense"}
  \/ (x.action_type = "dribble" /\ x.coords # <<>>)
  \/ (x.coords # <<>> /\ ~BothEnds(x))

\* C14 as claimed: movement is rendered iff both ends are present and the type
\* is pass, carry or dribble; otherwise a point is rendered whenever the
\* claimed point condition holds; the caption only when neither holds.
C14_ShapeAsClaimed ==
  activeAction # Null
    => LET x == activeAction[1]
       IN Shape(activeAction) =
            IF MovementChosen(x) THEN "movement"
            ELSE IF PointClaimed(x) THEN "point"
            ELSE "empty"

\* C14 as amended: movement as claimed; otherwise a point is rendered iff the
\* claimed point condition holds and coords has both of its entries; the
\* caption in every other case, so exactly one of the three is rendered.
C14_ShapeSelection ==
  activeAction # Null
    => LET x == activeAction[1]
       IN Shape(activeAction) =
            IF MovementChosen(x) THEN "movement"
            ELSE IF PointClaimed(x) /\ Len(x.coords) >= 2 THEN "point"
            ELSE "empty"

\* A shot without coords: the point condition holds and the caption is shown.
C14_Witness ==
  /\ activeAction # Null
  /\ activeAction[1].action_type = "shot"
  /\ activeAction[1].coords = <<>>
  /\ isPointAction(activeAction)
  /\ Shape(activeAction) = "empty"

\* The action x has no coordinates a shape could be drawn from.
NoUsableCoords(x) == ~BothEnds(x) /\ Len(x.coords) < 2

Count(list, x) == Cardinality({i \in 1..Len(list) : list[i] = x})

\* C16: criticalMoments holds every top highlight tagged positive and every
\* area for improvement tagged negative, each exactly once and nothing else,
\* in order of non-increasing minute; it is empty when playerAnalysis is null.
C16_CriticalMomentsSorted ==
  LET list == criticalMoments(playerAnalysis)
  IN IF playerAnalysis = Null THEN list = <<>>
     ELSE LET input == Tagged(playerAnalysis[1].top_highlights, "positive")
                       \o Tagged(playerAnalysis[1].areas_for_improvement, "negative")
          IN /\ Len(list) = Len(input)
             /\ \A i \in 1..Len(input) : Count(list, input[i]) = Count(input, input[i])
             /\ \A i \in 1..Len(list) : \A j \in i..Len(list) : list[i].minute >= list[j].minute

\* The spec's example: highlights at minutes 10 and 80 and a lowlight at 45
\* are listed in the order 80, 45, 10.
C16_Witness ==
  /\ playerAnalysis # Null
  /\ Len(playerAnalysis[1].top_highlights) = 2
  /\ playerAnalysis[1].top_highlights[1].minute = 10
  /\ playerAnalysis[1].top_highlights[2].minute = 80
  /\ Len(playerAnalysis[1].areas_for_improvement) = 1
  /\ playerAnalysis[1].areas_for_improvement[1].minute = 45
  /\ [i \in 1..3 |-> criticalMoments(playerAnalysis)[i].minute] = << 80, 45, 10 >>
  /\ [i \in 1..3 |-> criticalMoments(playerAnalysis)[i].impact]
       = << "positive", "negative", "positive" >>

\* The score r lies in [0, 10].
InRange(r) == RLe(Rat(0, 1), r) /\ RLe(r, Rat(10, 1))

\* The four scores that are always numbers lie in [0, 10], and so does
\* passReliability when it is a number.
ScoresInRange(b) ==
  /\ InRange(b.positiveImpact)
  /\ InRange(b.ballRetention)
  /\ InRange(b.highlightDensity)
  /\ InRange(b.netValue)
  /\ b.passReliability # Null => InRange(b.passReliability[1])

\* C17 as claimed: the five scores lie in [0, 10], and passReliability is
\* null exactly when pass_accuracy is "N/A".
C17_NullExactlyWhenNA ==
  playerAnalysis # Null
    => LET b == performanceBreakdown(playerAnalysis)[1]
       IN /\ ScoresInRange(b)
          /\ b.passReliability = Null
               <=> playerAnalysis[1].stats.pass_accuracy = << "N", "/", "A" >>

\* C17 as amended: the five scores lie in [0, 10]; passReliability is null
\* exactly when pass_accuracy is empty or "N/A", and otherwise the leading
\* integer of pass_accuracy divided by 10.
C17_BreakdownBounded ==
  playerAnalysis # Null
    => LET b == performanceBreakdown(playerAnalysis)[1]
           accuracy == playerAnalysis[1].stats.pass_accuracy
       IN /\ ScoresInRange(b)
          /\ b.passReliability = Null <=> accuracy \in {<<>>, << "N", "/", "A" >>}
          /\ b.passReliability # Null
               => \E pct \in 0..100 :
                    /\ ParseInt(accuracy) = Some(pct)
                    /\ REq(b.passReliability[1], Rat(pct, 10))

\* "73%" gives 7.3, with more positive contributions than actions counted
\* (the clamp of positiveImpact is in use).
C17_Witness ==
  /\ playerAnalysis # Null
  /\ playerAnalysis[1].stats.pass_accuracy = << "7", "3", "%" >>
  /\ playerAnalysis[1].stats.positive_contributions > playerAnalysis[1].stats.total_actions
  /\ performanceBreakdown(playerAnalysis)[1].passReliability = Some(Rat(73, 10))
  /\ REq(performanceBreakdown(playerAnalysis)[1].positiveImpact, Rat(10, 1))

\* ------------------------------------------- four requests of a match selection
FourKinds == {"players", "summary", "teamStats", "formation"}

\* The requests this step adds to those awaiting a response.
PAdded == flight' (-) flight

\* This step receives the response (ok or not) of a request of `kind`.
Resolved(kind) ==
  /\ ev'.op \in {"ok", "fail"} /\ ev'.kind = kind
  /\ \E r \in BagToSet(flight) : r.kind = kind /\ CopiesIn(r, flight') < CopiesIn(r, flight)

\* The slots of the other three requests keep their values.
OtherSlotsKept(kind) ==
  /\ kind # "players" => players' = players
  /\ kind # "summary" => matchSummary' = matchSummary
  /\ kind # "teamStats" => teamStats' = teamStats
  /\ kind # "formation" => formation' = formation /\ formationNumber' = formationNumber

\* The other requests stay in flight and can still complete.
OthersStay(kind) ==
  \A q \in BagToSet(flight) : q.kind # kind => CopiesIn(q, flight') >= CopiesIn(q, flight)

\* The requests of the four kinds this step issues are exactly `expected`.
IssuesFour(expected) ==
  \A r \in BagToSet(PAdded) \cup BagToSet(expected) :
    r.kind \in FourKinds => CopiesIn(r, PAdded) = CopiesIn(r, expected)

\* C20 as stated: the four requests of a match selection are independent:
\* the response of one, ok or failed, leaves the other requests in flight,
\* leaves the other three slots as they are, and issues no request for them.
C20_FourRequestsIndependent ==
  [][\A kind \in FourKinds :
       Resolved(kind)
         => OthersStay(kind) /\ OtherSlotsKept(kind) /\ IssuesFour(EmptyBag)]_vars

\* C20 as amended: the response of one of the four requests, ok or failed,
\* leaves the other requests in flight and the other three slots as they
\* are. A failed response, and a summary, team stats or formation response,
\* issues no request for the four slots; an ok players response that changes
\* the selected team issues one team stats and one formation request for the
\* selected match and the new team, and nothing else for the four slots.
C20_IndependentButTeamRefetch ==
  [][\A kind \in FourKinds :
       Resolved(kind)
         => /\ OthersStay(kind)
            /\ OtherSlotsKept(kind)
            /\ IssuesFour(IF kind = "players" /\ selectedTeam' # selectedTeam
                             /\ selectedMatchId # NoMatch
                          THEN One(PReq("teamStats", selectedMatchId, selectedTeam', "", 0))
                                 (+) One(PReq("formation", selectedMatchId, selectedTeam', "", 0))
                          ELSE EmptyBag)]_vars

\* After a failed summary the players list arrived and selected another
\* team: the team stats request sent at the match selection (for the team
\* selected then) is still in flight and a second one, for the new team, has
\* been issued.
C20_Witness ==
  /\ ev.op = "ok" /\ ev.kind = "players"
  /\ failures = 1 /\ matchSummary = Null /\ ~isLoadingMatchSummary
  /\ \E team \in AllTeams \ {selectedTeam} :
       CopiesIn(PReq("teamStats", selectedMatchId, team, "", 0), flight) >= 1
  /\ CopiesIn(PReq("teamStats", selectedMatchId, selectedTeam, "", 0), flight) >= 1
  /\ CopiesIn(PReq("formation", selectedMatchId, selectedTeam, "", 0), flight) >= 1

\* ---------------------------------------------------------------- Data Manager
\* The requests this step adds to those awaiting a response.
DmAdded == dmFlight' (-) dmFlight

\* This step receives the response of a status reload awaited by a mutating
\* call of kind o.kind for match o.match.
ReloadAnswered(o) ==
  \E r \in BagToSet(dmFlight) :
    /\ r.kind = "status" /\ r.owner = o.kind /\ r.match = o.match
    /\ dmFlight' = dmFlight (-) One(r)

\* C18: a mutating action (fetchMatch, deleteMatch, fetchAllMissing) whose
\* request succeeded first reloads the status snapshot and then emits
\* dataChanged: the step that receives its response starts the reload and
\* emits nothing, its continuation becomes runnable only in the step that
\* receives the reload's response, and dataChanged is emitted only by such a
\* continuation, once.
C18_ReloadThenEmit ==
  [][/\ dmEv'.op = "ok" /\ dmEv'.kind \in Mutating
          => /\ emitted' = emitted
             /\ DmAdded = One(DmReq("status", selectedCompetition, dmSelectedTeam,
                                    dmEv'.match, dmEv'.kind))
     /\ \A o \in BagToSet(dmResume') :
          CopiesIn(o, dmResume') > CopiesIn(o, dmResume) => ReloadAnswered(o)
     /\ emitted' # emitted
          => /\ emitted' = emitted + 1
             /\ \E o \in BagToSet(dmResume) :
                  /\ o.kind \in Mutating
                  /\ dmResume' = dmResume (-) One(o)
             /\ dmFlight' = dmFlight]_vars

\* fetchMatch has emitted dataChanged after its reload replaced the snapshot,
\* which now lists the fetched match as cached.
C18_Witness ==
  /\ dmEv.op = "emit" /\ dmEv.kind = "fetch"
  /\ emitted = 1
  /\ dataStatus # Null /\ dmEv.match \in dataStatus[1].cached
  /\ fetchingMatch = Null

\* The status reloads a change of selectedCompetition starts in its step.
CompetitionChangeReloads(n) ==
  selectedCompetition' # selectedCompetition
    => /\ dmSelectedTeam' = "all"
       /\ DmAdded = StatusReqs(selectedCompetition', "all", 0, "", n)

\* C19 as stated: a change of the selected competition resets the team
\* filter to "all" and reloads the snapshot exactly once, for the new
\* competition and without a team parameter, whatever the team filter was.
C19_ReloadsExactlyOnce == [][CompetitionChangeReloads(1)]_vars

\* What the two watchers do on a change of the selected competition: the
\* team filter is reset to "all" and reloads are started for the new
\* competition without a team parameter only, one when the team filter was
\* "all" already, two when it was a team (the reset runs the team watcher).
C19_ReloadPerWatcher ==
  [][CompetitionChangeReloads(IF dmSelectedTeam # "all" THEN 2 ELSE 1)]_vars

\* The competition was switched while a team was selected: two reloads.
C19_Witness ==
  /\ dmEv.op = "competition" /\ dmEv.sent = 2
  /\ dmSelectedTeam = "all"
  /\ CopiesIn(DmReq("status", selectedCompetition, "all", 0, ""), dmFlight) >= 2

\* ------------------------------------------------ first visualization (C21)
\* The visualization of a moment as the backend sent it: its payload, or the
\* fallback synthesized over `positions`, with the outcome lower-cased.
LoweredViz(moment, positions) ==
  LET raw == IF moment.pitch_viz_data # Null THEN moment.pitch_viz_data[1]
             ELSE makeFallbackVizData(moment, positions)
  IN [raw EXCEPT !.outcome = ToLower(@)]

\* C21: a successful player-analysis response sets the active visualization
\* to that of the first top highlight, or of the first area for improvement
\* when there is no highlight (payload or synthesized fallback, outcome
\* lower-cased), and to null when the answer has no moments, whatever the
\* active visualization was before.
C21_FirstMomentBecomesActive ==
  [][(ev'.op = "ok" /\ ev'.kind = "analysis")
       => /\ playerAnalysis' # Null
          /\ LET data == playerAnalysis'[1]
                 hs == data.top_highlights
                 ls == data.areas_for_improvement
             IN activeHighlightVizData' =
                  IF hs # <<>> THEN Some(LoweredViz(hs[1], data.all_positions))
                  ELSE IF ls # <<>> THEN Some(LoweredViz(ls[1], data.all_positions))
                  ELSE Null]_vars

\* An analysis without moments arrived after one with moments had been
\* shown: the active visualization is null.
C21_Witness ==
  /\ ev.op = "ok" /\ ev.kind = "analysis" /\ ev.hit
  /\ playerAnalysis # Null
  /\ playerAnalysis[1].top_highlights = <<>>
  /\ playerAnalysis[1].areas_for_improvement = <<>>
  /\ activeHighlightVizData = Null

\* ------------------------------------------------------- team change (C22)
\* C22: in a step that changes the selected team, the first player of the
\* new team in the players list becomes the selected player (the selected
\* player is left unchanged if the list has no player of that team), and if
\* a match is selected one team stats and one formation request are issued
\* for that match and the new team.
C22_TeamChangeReselects ==
  [][selectedTeam' # selectedTeam
       => /\ IF FirstOfTeam(players', selectedTeam') > 0
             THEN selectedPlayerName' = players'[FirstOfTeam(players', selectedTeam')].player_name
             ELSE selectedPlayerName' = selectedPlayerName
          /\ selectedMatchId' # NoMatch
               => \A kind \in {"teamStats", "formation"} :
                    CopiesIn(PReq(kind, selectedMatchId', selectedTeam', "", 0), flight')
                      = CopiesIn(PReq(kind, selectedMatchId', selectedTeam', "", 0), flight) + 1]_vars

\* The user chose France while Messi was selected: Mbappe is selected and
\* the team stats and formation of France in match 1 are requested.
C22_Witness ==
  /\ ev.op = "selectTeam"
  /\ selectedTeam = "France" /\ selectedPlayerName = "Mbappe" /\ selectedMatchId = 1
  /\ CopiesIn(PReq("teamStats", 1, "France", "", 0), flight) >= 1
  /\ CopiesIn(PReq("formation", 1, "France", "", 0), flight) >= 1

\* ------------------------------------------------------ fetch wrappers (C23)
\* A fetch function of the orchestrator ends in this step (response ok, not
\* ok, rejected or unparsable) with its loading flag lowered.
PlayerFetchEnds(kind, flag) ==
  (\E r \in BagToSet(flight) : r.kind = kind /\ CopiesIn(r, flight') < CopiesIn(r, flight))
    => /\ ev'.op \in {"ok", "fail"} /\ ev'.kind = kind
       /\ flag = FALSE

\* The busy flag of a mutating function of the Data Manager, idle.
BusyIdle(kind) ==
  CASE kind = "fetch"  -> fetchingMatch' = Null
    [] kind = "delete" -> deletingMatch' = Null
    [] OTHER           -> fetchingAll' = FALSE

\* C23: every fetch function ends, for every outcome of its request, in its
\* ok or its catch branch with the flag it raised back at idle: the five
\* loading flags of the orchestrator, isLoading of loadStatus, and the busy
\* flag of fetchMatch, deleteMatch and fetchAllMissing, which end either at
\* their failed response or after the awaited reload.
C23_FetchEndsWithFlagIdle ==
  [][/\ PlayerFetchEnds("matches", isLoadingMatches')
     /\ PlayerFetchEnds("players", isLoadingPlayers')
     /\ PlayerFetchEnds("analysis", isLoadingAnalysis')
     /\ PlayerFetchEnds("summary", isLoadingMatchSummary')
     /\ PlayerFetchEnds("teamStats", isLoadingTeamStats')
     /\ \A r \in BagToSet(dmFlight) :
          CopiesIn(r, dmFlight') < CopiesIn(r, dmFlight)
            => /\ dmEv'.op \in {"ok", "fail", "default"}
               /\ r.kind = "status" => dmIsLoading' = FALSE
               /\ (r.kind \in Mutating /\ dmEv'.op = "fail") => BusyIdle(r.kind)
               /\ (r.kind \in Mutating /\ dmEv'.op = "ok")
                    => \E q \in BagToSet(dmFlight') :
                         /\ q.kind = "status" /\ q.owner = r.kind /\ q.match = r.match
                         /\ CopiesIn(q, dmFlight') > CopiesIn(q, dmFlight)
               /\ (r.kind = "status" /\ r.owner # "")
                    => CopiesIn([kind |-> r.owner, match |-> r.match], dmResume')
                         > CopiesIn([kind |-> r.owner, match |-> r.match], dmResume)
     /\ \A o \in BagToSet(dmResume) :
          CopiesIn(o, dmResume') < CopiesIn(o, dmResume) => BusyIdle(o.kind)]_vars

\* fetchAllMissing has ended after its awaited reload failed: fetchingAll is
\* back at false and the reload's error is shown.
C23_Witness ==
  /\ dmEv.op = "emit" /\ dmEv.kind = "fetchAll"
  /\ ~fetchingAll /\ dmFailures = 1 /\ dmError # Null

\* ------------------------------------------------- shared loading flag (C24)
\* C24 as claimed: isLoading is true whenever an analytics request is in
\* flight.
C24_LoadingWhileInFlight == tabFlight # EmptyBag => isLoading

\* Two requests overlapped and the first response lowered the flag while the
\* request of the active tab is still awaited.
C24_Witness ==
  /\ tabEv.op \in {"ok", "fail"}
  /\ ~isLoading
  /\ \E r \in BagToSet(tabFlight) : r.slot = activeTab /\ r.match = matchId

TabAdded == tabFlight' (-) tabFlight

C26_PassingTeamInTeams ==
  [][\A r \in BagToSet(TabAdded) :
       (r.slot = "passing" /\ teams' # <<>>)
         => \E i \in 1..Len(teams') : teams'[i] = r.team]_vars

\* A passing-network request is awaited for a team that is not in the teams
\* list of the selected match.
C26_Witness ==
  /\ tabEv.op = "tab" /\ activeTab = "passing"
  /\ teams = teamsOf(MatchPlayers(matchId))
  /\ \E r \in BagToSet(tabFlight) :
       /\ r.slot = "passing" /\ r.match = matchId
       /\ \A i \in 1..Len(teams) : teams[i] # r.team

\* The state PassingOpen("France") of the tab controller, history aside.
PassingOpenReached ==
  /\ matchId = 1 /\ teams = teamsOf(MatchPlayers(1)) /\ activeTab = "passing"
  /\ tabData = [AllNull EXCEPT !["momentum"] = Some([match |-> 1, team |-> ""]),
                               !["passing"] = Some([match |-> 1, team |-> "France"])]
  /\ ~isLoading /\ tabTeam = "France" /\ tabFlight = EmptyBag /\ parentPlayers = {}
  /\ requested = {"momentum", "passing"}
  /\ tabEv = Event("ok", "passing", 1, "France", FALSE)

\* ------------------------------------------- fallback on the two paths (C27)
\* The moment the analysis fetch shows first, as criticalMoments lists it:
\* the first top highlight, else the first area for improvement, with the
\* impact tag of its list. <<>> when the analysis has no moments.
FirstListed(analysis) ==
  IF analysis = Null THEN <<>>
  ELSE IF analysis[1].top_highlights # <<>>
       THEN Tagged(SubSeq(analysis[1].top_highlights, 1, 1), "positive")
       ELSE Tagged(SubSeq(analysis[1].areas_for_improvement, 1, 1), "negative")

\* C27 as claimed: when the user clicks the card of the moment the analysis
\* fetch showed first, and that moment has no pitch_viz_data, the active
\* visualization is the one the fetch had set (same positions sample).
C27_ClickEqualsFirstViz ==
  [][(/\ ev'.op = "show" /\ ev'.hit
      /\ FirstListed(playerAnalysis) = << criticalMoments(playerAnalysis)[ev'.index] >>)
       => activeHighlightVizData' = FirstViz(playerAnalysis[1])]_vars

\* The first top highlight, without payload and with a score that is not
\* positive, was clicked: the click shows it complete and green, the fetch
\* had shown it incomplete and red, at the same coordinates.
C27_Witness ==
  /\ ev.op = "show" /\ ev.hit
  /\ FirstListed(playerAnalysis) = << Clicked >>
  /\ Clicked.impact = "positive" /\ Clicked.highlight_score <= 0
  /\ activeHighlightVizData[1].outcome = "complete"
  /\ FirstViz(playerAnalysis[1])[1].outcome = "incomplete"
  /\ activeHighlightVizData[1].coords = FirstViz(playerAnalysis[1])[1].coords

\* ------------------------------------------- failed mutating request (C28)
\* C28: a mutating action whose request fails leaves the dataStatus snapshot
\* as it is, sets error to a message, emits no dataChanged, starts no status
\* reload (nor any other request), and puts its busy flag back to idle.
C28_FailedMutationLeavesSnapshot ==
  [][\A r \in BagToSet(dmFlight) :
       (r.kind \in Mutating /\ CopiesIn(r, dmFlight') < CopiesIn(r, dmFlight)
          /\ dmEv'.op = "fail")
         => /\ dataStatus' = dataStatus
            /\ dmError' # Null
            /\ emitted' = emitted
            /\ BagToSet(DmAdded) = {}
            /\ dmResume' = dmResume
            /\ dmIsLoading' = dmIsLoading
            /\ BusyIdle(r.kind)]_vars

\* A delete request failed: the match is still listed as cached, the error
\* is shown, nothing was emitted and nothing is awaited.
C28_Witness ==
  /\ dmEv.op = "fail" /\ dmEv.kind = "delete"
  /\ dataStatus # Null /\ dmEv.match \in dataStatus[1].cached
  /\ dmError # Null
  /\ emitted = 0
  /\ deletingMatch = Null
  /\ dmFlight = EmptyBag

\* ------------------------------------------------ per-match busy flag (C29)
\* C29 as claimed: while a fetch (delete) request for match m is in flight,
\* fetchingMatch (deletingMatch) is m.
C29_BusyFlagNamesMatch ==
  \A r \in BagToSet(dmFlight) :
    /\ r.kind = "fetch" => fetchingMatch = Some(r.match)
    /\ r.kind = "delete" => deletingMatch = Some(r.match)

\* Fetches of two matches overlap: both requests are in flight, and
\* fetchingMatch names the second only, so the first match's button is
\* enabled again.
C29_Witness ==
  /\ dmEv.op = "call" /\ dmEv.kind = "fetch"
  /\ \E r1, r2 \in BagToSet(dmFlight) :
       /\ r1.kind = "fetch" /\ r2.kind = "fetch" /\ r1.match # r2.match
       /\ fetchingMatch = Some(r2.match)

\* ---------------------------------------------------- Player Comparison (C30)
\* C30 as claimed: when no comparison request is in flight and comparisonData
\* is not null, it is the answer for the selected (player1, player2, match),
\* and the two players differ.
C30_ComparisonIsCurrent ==
  (cmpFlight = EmptyBag /\ comparisonData # Null)
    => /\ comparisonData[1] = Comparison(player1Id, player2Id, cmpMatchId)
       /\ player1Id # player2Id

\* The part of C30 about the requests: one is sent only for two selected,
\* different players and a selected match, and it names them.
C30_RequestOnlyForDistinctPair ==
  [][\A r \in BagToSet(cmpFlight' (-) cmpFlight) :
       /\ player1Id' # NoPlayer /\ player2Id' # NoPlayer /\ player1Id' # player2Id'
       /\ cmpMatchId' # NoMatch
       /\ r = Comparison(player1Id', player2Id', cmpMatchId')]_vars

\* The comparison of two players in match 1 is shown, nothing is awaited,
\* and the selected match is match 2.
C30_Witness ==
  /\ cmpEv.op = "match"
  /\ cmpFlight = EmptyBag /\ ~cmpIsLoading
  /\ comparisonData # Null
  /\ comparisonData[1].match = 1 /\ cmpMatchId = 2
  /\ comparisonData[1].player1 = player1Id /\ comparisonData[1].player2 = player2Id
====
